---- MODULE Spec2Model ----
(***************************************************************************)
(* Model of the risque16 assembler core (src/assembler): the expression    *)
(* evaluator, the AssemblyState operations, the instruction encoders and   *)
(* the pass driver in main().  Words are uint16; every arithmetic result   *)
(* is reduced modulo 2^16 as Go does for uint16.                           *)
(***************************************************************************)
EXTENDS Integers, Sequences, FiniteSets, TLC

VARIABLES
  pc,       \* position of main(): "parse", "collect", "loop", "replay", "output", "done", "exit"
  src,      \* the source file: whether it parses, and the statement list it parses to
  lines,    \* ast.Lines, the parsed statement list
  li,       \* position of the current `range ast.Lines` loop (1-based, next statement)
  s,        \* the AssemblyState: labels, symbols, resolved, dirty, rom, index, used
  err,      \* "" or the message of the fatal error that ended the process
  out,      \* out.bin: whether it was written and the exclusive end of the image
  passes,   \* history: number of passes started (saturates at MaxPasses)
  start,    \* history: the label table as it was when the current pass started
  at,       \* history: per statement replayed in the current pass, the cursor before it
            \*          and (for a SymbolDef) the value its expression had
  writes,   \* history: <<address, word, cursor after>> of every push since the last reset
  changed,  \* history: some LabelDef of the current pass changed its label's entry
  call,     \* a single function applied on its own: its name and arguments
  ret       \* the result of that application, once it has returned

vars == <<pc, src, lines, li, s, err, out, passes, start, at, writes, changed, call, ret>>

\* The variables of the function applications; main() does not touch them.
uvars == <<call, ret>>

----------------------------------------------------------------------------
(* Bounds of the model. *)

MaxLines == 3     \* longest program of the general enumeration
MaxMid == 2       \* most statements between a forward branch and its label
MaxPasses == 5    \* the pass counter saturates here
MaxFairLines == 2 \* longest program of the runs checked for termination

----------------------------------------------------------------------------
(* uint16 arithmetic. *)

W == 65536

U16(x) == x % W

RECURSIVE And16(_, _, _)
And16(x, y, n) ==
  IF n = 0 THEN 0
  ELSE (x % 2) * (y % 2) + 2 * And16(x \div 2, y \div 2, n - 1)

RECURSIVE Or16(_, _, _)
Or16(x, y, n) ==
  IF n = 0 THEN 0
  ELSE (IF (x % 2) + (y % 2) > 0 THEN 1 ELSE 0) + 2 * Or16(x \div 2, y \div 2, n - 1)

RECURSIVE Xor16(_, _, _)
Xor16(x, y, n) ==
  IF n = 0 THEN 0
  ELSE (((x % 2) + (y % 2)) % 2) + 2 * Xor16(x \div 2, y \div 2, n - 1)

BitAnd(x, y) == And16(x, y, 16)
BitOr(x, y) == Or16(x, y, 16)
BitXor(x, y) == Xor16(x, y, 16)

RECURSIVE Pow2(_)
Pow2(n) == IF n = 0 THEN 1 ELSE 2 * Pow2(n - 1)

Shl(x, n) == U16(x * Pow2(n))
Shr(x, n) == x \div Pow2(n)
\* Neg16 that does not negate.
Neg16Identity(x) == U16(x)

Neg16(x) == U16(W - x)

----------------------------------------------------------------------------
(* Expressions (ast.go).  The result of an evaluation is a value, or the   *)
(* fatal error that ended the process during it.                           *)

Constant(v) == [kind |-> "Constant", value |-> v]
LabelUse(l) == [kind |-> "LabelUse", label |-> l]
BinExpr(l, op, r) == [kind |-> "BinExpr", lhs |-> l, operator |-> op, rhs |-> r]
UnaryExpr(op, e) == [kind |-> "UnaryExpr", operator |-> op, expr |-> e]

\* The nil Expression.
Nil == [kind |-> "nil"]

Val(v) == [err |-> "", v |-> v]
Fail(msg) == [err |-> msg, v |-> 0]

lookup(st, key) ==
  IF key \in DOMAIN st.labels
    THEN [value |-> st.labels[key].value, defined |-> st.labels[key].defined, known |-> TRUE]
  ELSE IF key \in DOMAIN st.symbols
    THEN [value |-> st.symbols[key].value, defined |-> st.symbols[key].defined, known |-> TRUE]
  ELSE [value |-> 0, defined |-> FALSE, known |-> FALSE]

LabelUseEvaluate(e, st) ==
  LET r == lookup(st, e.label) IN
  IF ~r.known THEN Fail("Unknown label") ELSE Val(r.value)

BinOp(op, l, r) ==
  CASE op = "PLUS" -> Val(U16(l + r))
    [] op = "MINUS" -> Val(U16(l + W - r))
    [] op = "TIMES" -> Val(U16(l * r))
    [] op = "DIVIDE" -> IF r = 0 THEN Fail("integer divide by zero") ELSE Val(l \div r)
    [] op = "AND" -> Val(BitAnd(l, r))
    [] op = "OR" -> Val(BitOr(l, r))
    [] op = "XOR" -> Val(BitXor(l, r))
    [] OTHER -> Fail("unknown binary operation")

UnOp(op, value) ==
  CASE op = "PLUS" -> Val(value)
    [] op = "MINUS" -> Val(Neg16(value))
    [] op = "NOT" -> Val(BitXor(65535, value))
    [] OTHER -> Fail("unknown unary operation")

RECURSIVE Evaluate(_, _)
Evaluate(e, st) ==
  CASE e.kind = "Constant" -> Val(e.value)
    [] e.kind = "LabelUse" -> LabelUseEvaluate(e, st)
    [] e.kind = "BinExpr" ->
         LET l == Evaluate(e.lhs, st) IN
         IF l.err # "" THEN l
         ELSE LET r == Evaluate(e.rhs, st) IN
              IF r.err # "" THEN r ELSE BinOp(e.operator, l.v, r.v)
    [] e.kind = "UnaryExpr" ->
         LET value == Evaluate(e.expr, st) IN
         IF value.err # "" THEN value ELSE UnOp(e.operator, value.v)
    [] OTHER -> Fail("nil pointer dereference")

\* The messages of checkLiteral, which cite the width of the field.
TooBig(width) == "Unsigned literal is too big for " \o ToString(width) \o "-bit literal"
NoFit(width) == "Signed literal doesn't fit in " \o ToString(width) \o "-bit literal"

\* checkLiteral without the test of the range.
checkLiteralUnchecked(st, expr, signed, width) == Evaluate(expr, st)

checkLiteral(st, expr, signed, width) ==
  LET value == Evaluate(expr, st) IN
  IF value.err # "" THEN value
  ELSE IF ~signed
    THEN IF value.v < Pow2(width) THEN value ELSE Fail(TooBig(width))
    ELSE LET mask == U16(Pow2(width) - 1) IN
         IF BitOr(value.v, mask) = mask \/ BitOr(value.v, mask) = 65535
           THEN value ELSE Fail(NoFit(width))

----------------------------------------------------------------------------
(* AssemblyState (state.go).  A replay context m carries the state, the    *)
(* fatal error raised so far ("" if none) and the history of pushes.       *)

NewState ==
  [labels |-> <<>>, symbols |-> <<>>, resolved |-> FALSE, dirty |-> FALSE,
   rom |-> <<>>, index |-> 0, used |-> {}]

RomAt(st, a) == IF a \in DOMAIN st.rom THEN st.rom[a] ELSE 0

addLabel(st, l) ==
  [st EXCEPT !.labels = (l :> [value |-> 0, defined |-> FALSE]) @@ @]

\* updateLabel without the test of the defined flag.
updateLabelValueOnly(st, l, loc) ==
  LET lr == st.labels[l] IN
  [st EXCEPT !.dirty = IF lr.value # loc THEN TRUE ELSE @,
             !.labels = [@ EXCEPT ![l] = [value |-> loc, defined |-> TRUE]]]

updateLabel(st, l, loc) ==
  LET lr == st.labels[l] IN
  [st EXCEPT !.dirty = IF ~lr.defined \/ lr.value # loc THEN TRUE ELSE @,
             !.labels = [@ EXCEPT ![l] = [value |-> loc, defined |-> TRUE]]]

updateSymbol(st, l, val) ==
  [st EXCEPT !.symbols = (l :> [value |-> val, defined |-> TRUE]) @@ @]

\* reset that forgets to replace the symbol table.
resetKeepSymbols(st) ==
  [st EXCEPT !.resolved = TRUE, !.dirty = FALSE, !.index = 0, !.used = {}]

reset(st) ==
  [st EXCEPT !.symbols = <<>>, !.resolved = TRUE, !.dirty = FALSE,
             !.index = 0, !.used = {}]

\* push without the test of the used set.
pushUnchecked(m, x) ==
  [m EXCEPT !.s.used = @ \cup {m.s.index},
            !.s.rom = (m.s.index :> x) @@ @,
            !.s.index = U16(m.s.index + 1),
            !.writes = Append(@, <<m.s.index, x, U16(m.s.index + 1)>>)]

push(m, x) ==
  IF m.s.index \in m.s.used
    THEN [m EXCEPT !.err = "overlapping regions"]
    ELSE [m EXCEPT !.s.used = @ \cup {m.s.index},
                   !.s.rom = (m.s.index :> x) @@ @,
                   !.s.index = U16(m.s.index + 1),
                   !.writes = Append(@, <<m.s.index, x, U16(m.s.index + 1)>>)]

RECURSIVE pushAll(_, _)
\* pushAll that pushes the first word only.
pushAllFirst(m, xs) == IF xs = <<>> \/ m.err # "" THEN m ELSE push(m, Head(xs))

pushAll(m, xs) ==
  IF xs = <<>> \/ m.err # "" THEN m
  ELSE pushAll(push(m, Head(xs)), Tail(xs))

----------------------------------------------------------------------------
(* Statements and arguments (ast.go). *)

LabelDef(l) == [kind |-> "LabelDef", label |-> l]
Org(e) == [kind |-> "Org", loc |-> e]
SymbolDef(n, e) == [kind |-> "SymbolDef", name |-> n, value |-> e]
DatBlock(vs) == [kind |-> "DatBlock", values |-> vs]
FillBlock(len, val) == [kind |-> "FillBlock", length |-> len, value |-> val]
Instruction(op, as) == [kind |-> "Instruction", opcode |-> op, args |-> as]

ArgReg(r) == [kind |-> "AT_REG", reg |-> r]
ArgLiteral(e) == [kind |-> "AT_LITERAL", lit |-> e]
ArgLabel(e) == [kind |-> "AT_LABEL", label |-> e]
ArgPC == [kind |-> "AT_PC"]
ArgSP == [kind |-> "AT_SP"]

riInstructions ==
  [MOV |-> 1, NEG |-> 2, CMP |-> 3, ADD |-> 4, SUB |-> 5, MUL |-> 6, LSL |-> 7,
   LSR |-> 8, ASR |-> 9, AND |-> 10, ORR |-> 11, XOR |-> 12, MVH |-> 15]

rrrInstructions ==
  [ADD |-> 1, ADC |-> 2, SUB |-> 3, SBC |-> 4, MUL |-> 5, LSL |-> 6, LSR |-> 7,
   ASR |-> 8, AND |-> 9, ORR |-> 10, XOR |-> 11]

rrInstructions ==
  [MOV |-> 1, CMP |-> 2, CMN |-> 3, ROR |-> 4, NEG |-> 5, TST |-> 6, MVN |-> 7]

rInstructions ==
  [BX |-> 1, BLX |-> 2, SWI |-> 3, HWN |-> 4, HWQ |-> 5, HWI |-> 6, XSR |-> 7]

voidInstructions ==
  [RFI |-> 0, IFS |-> 1, IFC |-> 2, RET |-> 3, POPSP |-> 4, BRK |-> 5]

branchInstructions ==
  [B |-> 0, BL |-> 1, BEQ |-> 2, BNE |-> 3, BCS |-> 4, BCC |-> 5, BMI |-> 6,
   BPL |-> 7, BVS |-> 8, BVC |-> 9, BHI |-> 10, BLS |-> 11, BGE |-> 12,
   BLT |-> 13, BGT |-> 14, BLE |-> 15]

specialInstructions == {"ADD", "SUB", "SWI"}

\* asmError that reports the error and returns instead of exiting.
asmErrorReturns(m, msg) == m

asmError(m, msg) == [m EXCEPT !.err = msg]

----------------------------------------------------------------------------
(* Instruction encoders (instructions.go). *)

\* opRI with the register field placed one bit lower, over the literal.
opRIOverlapping(mnemonic, opcode, args, m) ==
  push(m, BitOr(BitOr(Shl(opcode, 11), Shl(args[1].reg, 7)), Evaluate(args[2].lit, m.s).v))

opRI(mnemonic, opcode, args, m) ==
  IF mnemonic = "MOV"
    THEN LET value == Evaluate(args[2].lit, m.s) IN
         IF value.err # "" THEN asmError(m, value.err)
         ELSE IF value.v <= 255
           THEN push(m, BitOr(BitOr(Shl(opcode, 11), Shl(args[1].reg, 8)), value.v))
         ELSE IF value.v > 65280
           THEN push(m, BitOr(BitOr(4096, Shl(args[1].reg, 8)), Neg16(value.v)))
         ELSE pushAll(m, << BitOr(BitOr(2048, Shl(args[1].reg, 8)), BitAnd(value.v, 255)),
                            BitOr(BitOr(30720, Shl(args[1].reg, 8)), Shr(value.v, 8)) >>)
    ELSE LET value == checkLiteral(m.s, args[2].lit, FALSE, 8) IN
         IF value.err # "" THEN asmError(m, value.err)
         ELSE push(m, BitOr(BitOr(Shl(opcode, 11), Shl(args[1].reg, 8)), value.v))

opRRR(opcode, args, m) ==
  push(m, BitOr(BitOr(BitOr(BitOr(32768, Shl(opcode, 9)), Shl(args[3].reg, 6)),
                      Shl(args[2].reg, 3)), args[1].reg))

opRR(opcode, args, m) ==
  push(m, BitOr(BitOr(BitOr(32768, Shl(opcode, 6)), Shl(args[2].reg, 3)), args[1].reg))

opR(opcode, args, m) ==
  push(m, BitOr(BitOr(32768, Shl(opcode, 3)), args[1].reg))

opVoid(opcode, m) == push(m, BitOr(32768, opcode))

\* opBranch with the offset taken from the branch itself, not from the next word.
opBranchFromCursor(opcode, args, m) ==
  LET target == Evaluate(args[1].label, m.s) IN
  IF target.err # "" THEN asmError(m, target.err)
  ELSE LET diff == U16(target.v + W - m.s.index) IN
       IF diff # 65535 /\ (diff < 256 \/ Neg16(diff) <= 256)
         THEN push(m, BitOr(BitOr(40960, Shl(opcode, 9)), BitAnd(diff, 511)))
         ELSE pushAll(m, << BitOr(BitOr(40960, Shl(opcode, 9)), 511), target.v >>)

opBranch(opcode, args, m) ==
  LET target == Evaluate(args[1].label, m.s) IN
  IF target.err # "" THEN asmError(m, target.err)
  ELSE LET diff == U16(target.v + W - U16(m.s.index + 1)) IN
       IF diff # 65535 /\ (diff < 256 \/ Neg16(diff) <= 256)
         THEN push(m, BitOr(BitOr(40960, Shl(opcode, 9)), BitAnd(diff, 511)))
         ELSE pushAll(m, << BitOr(BitOr(40960, Shl(opcode, 9)), 511), target.v >>)

opAddSub(mnemonic, args, m) ==
  IF Len(args) = 2 /\ args[1].kind = "AT_REG" /\ args[2].kind = "AT_LITERAL"
    THEN opRI(mnemonic, IF mnemonic = "SUB" THEN 5 ELSE 4, args, m)
  ELSE IF Len(args) = 3 /\ args[1].kind = "AT_REG" /\ args[2].kind = "AT_REG"
          /\ args[3].kind = "AT_REG"
    THEN opRRR(IF mnemonic = "SUB" THEN 3 ELSE 1, args, m)
  ELSE IF mnemonic = "ADD" /\ Len(args) = 3 /\ args[1].kind = "AT_REG"
          /\ args[2].kind = "AT_PC" /\ args[3].kind = "AT_LITERAL"
    THEN LET value == checkLiteral(m.s, args[3].lit, FALSE, 8) IN
         IF value.err # "" THEN asmError(m, value.err)
         ELSE push(m, BitOr(BitOr(Shl(13, 11), Shl(args[1].reg, 8)), value.v))
  ELSE IF mnemonic = "ADD" /\ Len(args) = 3 /\ args[1].kind = "AT_REG"
          /\ args[2].kind = "AT_SP" /\ args[3].kind = "AT_LITERAL"
    THEN LET value == checkLiteral(m.s, args[3].lit, FALSE, 8) IN
         IF value.err # "" THEN asmError(m, value.err)
         ELSE push(m, BitOr(BitOr(Shl(14, 11), Shl(args[1].reg, 8)), value.v))
  ELSE IF Len(args) = 2 /\ args[1].kind = "AT_SP" /\ args[2].kind = "AT_LITERAL"
    THEN LET value == checkLiteral(m.s, args[2].lit, FALSE, 8) IN
         IF value.err # "" THEN asmError(m, value.err)
         ELSE push(m, BitOr(Shl(IF mnemonic = "SUB" THEN 1 ELSE 0, 8), value.v))
  ELSE asmError(m, "Unrecognized arguments")

opSWI(args, m) ==
  IF Len(args) = 1 /\ args[1].kind = "AT_REG"
    THEN push(m, BitOr(32792, args[1].reg))
  ELSE IF Len(args) = 1 /\ args[1].kind = "AT_LITERAL"
    THEN LET value == checkLiteral(m.s, args[1].lit, FALSE, 8) IN
         IF value.err # "" THEN asmError(m, value.err)
         ELSE push(m, BitOr(512, value.v))
  ELSE asmError(m, "Invalid arguments to SWI")

----------------------------------------------------------------------------
(* Statement replay (ast.go). *)

OrgAssemble(o, m) ==
  LET loc == Evaluate(o.loc, m.s) IN
  IF loc.err # "" THEN asmError(m, loc.err)
  ELSE [m EXCEPT !.s.index = loc.v]

SymbolDefAssemble(d, m) ==
  LET value == Evaluate(d.value, m.s) IN
  IF value.err # "" THEN asmError(m, value.err)
  ELSE [m EXCEPT !.s = updateSymbol(m.s, d.name, value.v)]

RECURSIVE datLoop(_, _)
datLoop(m, values) ==
  IF values = <<>> \/ m.err # "" THEN m
  ELSE LET v == Evaluate(Head(values), m.s) IN
       IF v.err # "" THEN asmError(m, v.err)
       ELSE datLoop(push(m, v.v), Tail(values))

DatBlockAssemble(b, m) == datLoop(m, b.values)

\* The iterations i .. len-1 of the loop `for i < len { s.push(val) }`, in order;
\* the range is split in halves only to keep the evaluation depth logarithmic.
RECURSIVE fillLoop(_, _, _, _)
fillLoop(m, i, len, val) ==
  IF i >= len \/ m.err # "" THEN m
  ELSE IF len - i = 1 THEN push(m, val)
  ELSE LET mid == i + ((len - i) \div 2) IN
       fillLoop(fillLoop(m, i, mid, val), mid, len, val)

FillBlockAssemble(b, m) ==
  LET len == Evaluate(b.length, m.s) IN
  IF len.err # "" THEN asmError(m, len.err)
  ELSE LET val == Evaluate(b.value, m.s) IN
       IF val.err # "" THEN asmError(m, val.err)
       ELSE fillLoop(m, 0, len.v, val.v)

LabelDefAssemble(l, m) ==
  IF l.label \in DOMAIN m.s.labels
    THEN [m EXCEPT !.s = updateLabel(m.s, l.label, m.s.index)]
    ELSE asmError(m, "unknown label")

InstructionAssemble(op, m) ==
  LET n == Len(op.args) IN
  IF op.opcode \in DOMAIN rrrInstructions /\ n = 3 /\ op.args[1].kind = "AT_REG"
     /\ op.args[2].kind = "AT_REG" /\ op.args[3].kind = "AT_REG"
    THEN opRRR(rrrInstructions[op.opcode], op.args, m)
  ELSE IF op.opcode \in DOMAIN rrInstructions /\ n = 2 /\ op.args[1].kind = "AT_REG"
          /\ op.args[2].kind = "AT_REG"
    THEN opRR(rrInstructions[op.opcode], op.args, m)
  ELSE IF op.opcode \in DOMAIN rInstructions /\ n = 1 /\ op.args[1].kind = "AT_REG"
    THEN opR(rInstructions[op.opcode], op.args, m)
  ELSE IF op.opcode \in DOMAIN voidInstructions /\ n = 0
    THEN opVoid(voidInstructions[op.opcode], m)
  ELSE IF op.opcode \in DOMAIN riInstructions /\ n = 2 /\ op.args[1].kind = "AT_REG"
          /\ op.args[2].kind = "AT_LITERAL"
    THEN opRI(op.opcode, riInstructions[op.opcode], op.args, m)
  ELSE IF op.opcode \in DOMAIN branchInstructions /\ n = 1 /\ op.args[1].kind = "AT_LABEL"
    THEN opBranch(branchInstructions[op.opcode], op.args, m)
  ELSE IF op.opcode = "ADD" \/ op.opcode = "SUB"
    THEN opAddSub(op.opcode, op.args, m)
  ELSE IF op.opcode = "SWI"
    THEN opSWI(op.args, m)
  ELSE asmError(m, "Unrecognized opcode")

\* LoadStore.Assemble whose increment is 1 when none is written.
LoadStoreAssembleIncOne(op, m) ==
  LET st == IF op.storing THEN 1 ELSE 0 IN
  IF op.base = 65535
    THEN LET off == IF op.preLit # Nil THEN checkLiteral(m.s, op.preLit, FALSE, 4) ELSE Val(0) IN
         IF off.err # "" THEN asmError(m, off.err)
         ELSE push(m, BitOr(BitOr(BitOr(49152, Shl(6 + st, 10)), Shl(op.dest, 7)), off.v))
  ELSE IF op.preReg # 65535
    THEN push(m, BitOr(BitOr(BitOr(BitOr(49152, Shl(4 + st, 10)), Shl(op.dest, 7)),
                             Shl(op.base, 4)), op.preReg))
  ELSE IF op.preLit # Nil
    THEN LET value == checkLiteral(m.s, op.preLit, FALSE, 4) IN
         IF value.err # "" THEN asmError(m, value.err)
         ELSE push(m, BitOr(BitOr(BitOr(BitOr(49152, Shl(2 + st, 10)), Shl(op.dest, 7)),
                                  Shl(op.base, 4)), value.v))
  ELSE LET value == IF op.postLit # Nil THEN checkLiteral(m.s, op.postLit, FALSE, 4)
                    ELSE Val(1) IN
       IF value.err # "" THEN asmError(m, value.err)
       ELSE push(m, BitOr(BitOr(BitOr(BitOr(49152, Shl(st, 10)), Shl(op.dest, 7)),
                                Shl(op.base, 4)), value.v))

LoadStoreAssemble(op, m) ==
  LET st == IF op.storing THEN 1 ELSE 0 IN
  IF op.base = 65535
    THEN LET off == IF op.preLit # Nil THEN checkLiteral(m.s, op.preLit, FALSE, 4) ELSE Val(0) IN
         IF off.err # "" THEN asmError(m, off.err)
         ELSE push(m, BitOr(BitOr(BitOr(49152, Shl(6 + st, 10)), Shl(op.dest, 7)), off.v))
  ELSE IF op.preReg # 65535
    THEN push(m, BitOr(BitOr(BitOr(BitOr(49152, Shl(4 + st, 10)), Shl(op.dest, 7)),
                             Shl(op.base, 4)), op.preReg))
  ELSE IF op.preLit # Nil
    THEN LET value == checkLiteral(m.s, op.preLit, FALSE, 4) IN
         IF value.err # "" THEN asmError(m, value.err)
         ELSE push(m, BitOr(BitOr(BitOr(BitOr(49152, Shl(2 + st, 10)), Shl(op.dest, 7)),
                                  Shl(op.base, 4)), value.v))
  ELSE LET value == IF op.postLit # Nil THEN checkLiteral(m.s, op.postLit, FALSE, 4)
                    ELSE Val(0) IN
       IF value.err # "" THEN asmError(m, value.err)
       ELSE push(m, BitOr(BitOr(BitOr(BitOr(49152, Shl(st, 10)), Shl(op.dest, 7)),
                                Shl(op.base, 4)), value.v))

StackOpAssemble(op, m) ==
  LET st == IF op.storing THEN 1 ELSE 0 IN
  IF op.base = 65535
    THEN push(m, BitOr(BitOr(BitOr(57344, Shl(st, 11)), IF op.lrpc THEN 256 ELSE 0), op.regs))
    ELSE push(m, BitOr(BitOr(BitOr(57344, Shl(2 + st, 11)), op.regs), Shl(op.base, 8)))

\* l.Assemble(s) for a statement l of any kind.
StmtAssemble(l, m) ==
  CASE l.kind = "Org" -> OrgAssemble(l, m)
    [] l.kind = "SymbolDef" -> SymbolDefAssemble(l, m)
    [] l.kind = "DatBlock" -> DatBlockAssemble(l, m)
    [] l.kind = "FillBlock" -> FillBlockAssemble(l, m)
    [] l.kind = "LabelDef" -> LabelDefAssemble(l, m)
    [] l.kind = "Instruction" -> InstructionAssemble(l, m)
    [] l.kind = "LoadStore" -> LoadStoreAssemble(l, m)
    [] l.kind = "StackOp" -> StackOpAssemble(l, m)

\* for _, l := range ast.Lines { l.Assemble(s) }, up to the first fatal error.
RECURSIVE replayAll(_, _)
replayAll(ls, m) ==
  IF ls = <<>> \/ m.err # "" THEN m
  ELSE replayAll(Tail(ls), StmtAssemble(Head(ls), m))

\* The loop that collects the labels.
RECURSIVE collectLabels(_, _)
collectLabels(ls, st) ==
  IF ls = <<>> THEN st
  ELSE collectLabels(Tail(ls),
         IF Head(ls).kind = "LabelDef" THEN addLabel(st, Head(ls).label) ELSE st)

\* What main() does with a parsed statement list up to the end of its first pass.
FirstPass(ls) ==
  replayAll(ls, [s |-> reset([collectLabels(ls, reset(NewState)) EXCEPT !.dirty = TRUE]),
                 err |-> "", writes |-> <<>>])

----------------------------------------------------------------------------
(* Tokens and the parser (parser.go).  A token is its kind and its literal, *)
(* the literal being the sequence of runes (code points) the scanner read.  *)
(* The parser state is the position of the next token; a parse result is    *)
(* a value or an error message, with the position the parser is left at.    *)

Tok(t, lit) == [tok |-> t, lit |-> lit]

TokAt(ts, i) == IF i <= Len(ts) THEN ts[i] ELSE Tok("EOF", <<>>)

scan(ts, pos) == [tok |-> TokAt(ts, pos).tok, lit |-> TokAt(ts, pos).lit, pos |-> pos + 1]

\* The next scan returns again the token t that was returned last.
unscan(t) == t.pos - 1

\* The rest F of a function body once the value v has been computed: x := v; F(x).
With(v, F(_)) == F(v)

RECURSIVE scanIgnoreWhitespace(_, _)
scanIgnoreWhitespace(ts, pos) ==
  With(scan(ts, pos), LAMBDA t :
    IF t.tok = "WS" THEN scanIgnoreWhitespace(ts, t.pos) ELSE t)

Ok(v, pos) == [ok |-> TRUE, v |-> v, pos |-> pos]
Err(msg, pos) == [ok |-> FALSE, v |-> msg, pos |-> pos]

UpperLetters ==
  << "A", "B", "C", "D", "E", "F", "G", "H", "I", "J", "K", "L", "M",
     "N", "O", "P", "Q", "R", "S", "T", "U", "V", "W", "X", "Y", "Z" >>

LowerLetters ==
  << "a", "b", "c", "d", "e", "f", "g", "h", "i", "j", "k", "l", "m",
     "n", "o", "p", "q", "r", "s", "t", "u", "v", "w", "x", "y", "z" >>

Digits == << "0", "1", "2", "3", "4", "5", "6", "7", "8", "9" >>

\* The string holding the single rune c (the runes of identifiers and numbers).
Chr(c) ==
  IF c \in 65..90 THEN UpperLetters[c - 64]
  ELSE IF c \in 97..122 THEN LowerLetters[c - 96]
  ELSE IF c \in 48..57 THEN Digits[c - 47]
  ELSE "_"

\* The string a literal is.
RECURSIVE Join(_)
Join(lit) == IF lit = <<>> THEN "" ELSE Chr(Head(lit)) \o Join(Tail(lit))

\* strings.ToUpper
ToUpper(lit) == [i \in 1..Len(lit) |-> IF lit[i] \in 97..122 THEN lit[i] - 32 ELSE lit[i]]

\* The value of the rune c as a digit; 99 if it is none.
DigitOf(c) ==
  IF c \in 48..57 THEN c - 48
  ELSE IF c \in 97..102 THEN c - 87
  ELSE IF c \in 65..70 THEN c - 55
  ELSE 99

RECURSIVE ParseDigits(_, _, _)
ParseDigits(ds, base, acc) ==
  IF ds = <<>> THEN [ok |-> TRUE, n |-> acc]
  ELSE IF DigitOf(Head(ds)) >= base THEN [ok |-> FALSE, n |-> 0]
  ELSE ParseDigits(Tail(ds), base, acc * base + DigitOf(Head(ds)))

\* strconv.ParseInt(lit, 0, 0): the base is taken from the prefix.
ParseInt(lit) ==
  IF Len(lit) >= 3 /\ lit[1] = 48 /\ lit[2] \in {120, 88}
    THEN ParseDigits(SubSeq(lit, 3, Len(lit)), 16, 0)
  ELSE IF Len(lit) >= 3 /\ lit[1] = 48 /\ lit[2] \in {98, 66}
    THEN ParseDigits(SubSeq(lit, 3, Len(lit)), 2, 0)
  ELSE IF Len(lit) >= 2 /\ lit[1] = 48
    THEN ParseDigits(Tail(lit), 8, 0)
  ELSE IF lit = <<>> THEN [ok |-> FALSE, n |-> 0]
  ELSE ParseDigits(lit, 10, 0)

parseAddOp(ts, pos) ==
  With(scanIgnoreWhitespace(ts, pos), LAMBDA t :
    IF t.tok \in {"PLUS", "MINUS", "OR", "XOR"} THEN Ok(t.tok, t.pos)
    ELSE Err("Found non-additive operator", unscan(t)))

\* parseMulOp that accepts the additive operators as well.
parseMulOpFlat(ts, pos) ==
  With(scanIgnoreWhitespace(ts, pos), LAMBDA t :
    IF t.tok \in {"TIMES", "DIVIDE", "AND", "PLUS", "MINUS", "OR", "XOR"} THEN Ok(t.tok, t.pos)
    ELSE Err("Found non-multiplicative operator", unscan(t)))

parseMulOp(ts, pos) ==
  With(scanIgnoreWhitespace(ts, pos), LAMBDA t :
    IF t.tok \in {"TIMES", "DIVIDE", "AND"} THEN Ok(t.tok, t.pos)
    ELSE Err("Found non-multiplicative operator", unscan(t)))

\* final = &BinExpr{final, op, exprs[i+1]} for the operators i .. Len(ops).
RECURSIVE reduceChain(_, _, _, _)
reduceChain(final, ops, exprs, i) ==
  IF i > Len(ops) THEN final
  ELSE reduceChain(BinExpr(final, ops[i], exprs[i + 1]), ops, exprs, i + 1)

\* e = &UnaryExpr{ops[i], e} for i = Len(ops) down to 1.
RECURSIVE wrapUnary(_, _, _)
wrapUnary(ops, i, e) ==
  IF i < 1 THEN e ELSE wrapUnary(ops, i - 1, UnaryExpr(ops[i], e))

\* The loop collecting the unary operators in front of a term.
RECURSIVE unaryOps(_, _, _)
unaryOps(ts, pos, ops) ==
  With(scanIgnoreWhitespace(ts, pos), LAMBDA t :
    IF t.tok \in {"PLUS", "MINUS", "NOT"} THEN unaryOps(ts, t.pos, Append(ops, t.tok))
    ELSE [ops |-> ops, pos |-> unscan(t)])

RECURSIVE parseOperatorChain(_, _, _)
RECURSIVE chainLoop(_, _, _, _, _)
RECURSIVE parseUnaryExpr(_, _)
RECURSIVE parseTerm(_, _)

parseSimpleExpr(ts, pos) == parseOperatorChain(ts, pos, "add")

parseMulExpr(ts, pos) == parseOperatorChain(ts, pos, "mul")

\* The loop of parseOperatorChain; level tells which pair of functions was passed:
\* (parseMulExpr, parseAddOp) or (parseUnaryExpr, parseMulOp).
chainLoop(ts, pos, level, exprs, ops) ==
  With(IF level = "add" THEN parseMulExpr(ts, pos) ELSE parseUnaryExpr(ts, pos), LAMBDA e :
    IF ~e.ok THEN [exprs |-> exprs, ops |-> ops, pos |-> e.pos]
    ELSE With(IF level = "add" THEN parseAddOp(ts, e.pos) ELSE parseMulOp(ts, e.pos), LAMBDA op :
           IF ~op.ok THEN [exprs |-> Append(exprs, e.v), ops |-> ops, pos |-> op.pos]
           ELSE chainLoop(ts, op.pos, level, Append(exprs, e.v), Append(ops, op.v))))

parseOperatorChain(ts, pos, level) ==
  With(chainLoop(ts, pos, level, <<>>, <<>>), LAMBDA c :
    IF Len(c.exprs) # Len(c.ops) + 1 THEN Err("Mismatched operation chain", c.pos)
    ELSE Ok(reduceChain(c.exprs[1], c.ops, c.exprs, 1), c.pos))

parseUnaryExpr(ts, pos) ==
  With(unaryOps(ts, pos, <<>>), LAMBDA u :
    With(parseTerm(ts, u.pos), LAMBDA e :
      IF ~e.ok THEN e ELSE Ok(wrapUnary(u.ops, Len(u.ops), e.v), e.pos)))

parseTerm(ts, pos) ==
  With(scanIgnoreWhitespace(ts, pos), LAMBDA t :
    CASE t.tok = "IDENT" -> Ok(LabelUse(Join(t.lit)), t.pos)
      [] t.tok = "NUMBER" ->
           With(ParseInt(t.lit), LAMBDA n :
             IF ~n.ok THEN Err("invalid syntax", t.pos) ELSE Ok(Constant(n.n % W), t.pos))
      [] t.tok = "LPAREN" ->
           With(parseSimpleExpr(ts, t.pos), LAMBDA subexpr :
             IF ~subexpr.ok THEN Err("Error parsing bracketed subexpression", subexpr.pos)
             ELSE With(scanIgnoreWhitespace(ts, subexpr.pos), LAMBDA t2 :
                    IF t2.tok # "RPAREN"
                      THEN Err("Failed to parse bracketed subexpression: expected )", t2.pos)
                      ELSE Ok(subexpr.v, t2.pos)))
      [] OTHER -> Err("Found a token that starts no expression", unscan(t)))

\* consume: whether the next token is of kind k; it is read only if it is.
consume(ts, pos, k) ==
  With(scanIgnoreWhitespace(ts, pos), LAMBDA t :
    IF t.tok = k THEN [ok |-> TRUE, pos |-> t.pos] ELSE [ok |-> FALSE, pos |-> unscan(t)])

consumeComma(ts, pos) == consume(ts, pos, "COMMA")

\* Number of bytes of the UTF-8 encoding of the rune c.
Utf8Len(c) == IF c < 128 THEN 1 ELSE IF c < 2048 THEN 2 ELSE IF c < 65536 THEN 3 ELSE 4

\* b := make([]Expression, len(lit)); for i, c := range lit { b[i] = &Constant{uint16(c)} }
\* len(lit) counts bytes and i is the byte offset of the rune c.
RECURSIVE StringValues(_)
StringValues(lit) ==
  IF lit = <<>> THEN <<>>
  ELSE <<Constant(Head(lit) % W)>> \o [i \in 1..(Utf8Len(Head(lit)) - 1) |-> Nil]
         \o StringValues(Tail(lit))

\* buf := make([]Expression, 1); buf[0] = expr
single(expr) == IF ~expr.ok THEN expr ELSE Ok(<<expr.v>>, expr.pos)

parseExpr(ts, pos) ==
  With(scanIgnoreWhitespace(ts, pos), LAMBDA t :
    IF t.tok = "STRING" THEN Ok(StringValues(t.lit), t.pos)
    ELSE single(parseSimpleExpr(ts, unscan(t))))

RECURSIVE exprListLoop(_, _, _, _)
exprListLoop(ts, pos, allowStringLiterals, buf) ==
  With(IF allowStringLiterals THEN parseExpr(ts, pos) ELSE single(parseSimpleExpr(ts, pos)),
       LAMBDA exprs :
    IF ~exprs.ok THEN exprs
    ELSE With(consumeComma(ts, exprs.pos), LAMBDA c :
           IF c.ok THEN exprListLoop(ts, c.pos, allowStringLiterals, buf \o exprs.v)
           ELSE Ok(buf \o exprs.v, c.pos)))

parseExprList(ts, pos, allowStringLiterals) ==
  With(exprListLoop(ts, pos, allowStringLiterals, <<>>), LAMBDA r :
    IF ~r.ok THEN r
    ELSE IF Len(r.v) = 0 THEN Err("Empty expression list", r.pos)
    ELSE r)

\* The end of a directive: the statement st if a NEWLINE follows.
endOfDirective(ts, pos, st) ==
  With(consume(ts, pos, "NEWLINE"), LAMBDA c :
    IF ~c.ok THEN Err("Unexpected token at end of directive", c.pos) ELSE Ok(st, c.pos))

\* The directive `name`, whose operands start at pos.
directive(name, ts, pos) ==
  CASE name = "DAT" ->
         With(parseExprList(ts, pos, TRUE), LAMBDA args :
           IF ~args.ok THEN Err("Failed to parse .DAT values", args.pos)
           ELSE endOfDirective(ts, args.pos, DatBlock(args.v)))
    [] name = "ORG" ->
         With(parseSimpleExpr(ts, pos), LAMBDA expr :
           IF ~expr.ok THEN Err("Bad expression for .ORG", expr.pos)
           ELSE endOfDirective(ts, expr.pos, Org(expr.v)))
    [] name = "FILL" ->
         With(parseExprList(ts, pos, FALSE), LAMBDA values :
           IF ~values.ok THEN Err("Failed to parse .FILL arguments", values.pos)
           ELSE IF Len(values.v) # 2 THEN Err(".FILL requires two arguments", values.pos)
           ELSE endOfDirective(ts, values.pos, FillBlock(values.v[2], values.v[1])))
    [] name = "RESERVE" ->
         With(parseSimpleExpr(ts, pos), LAMBDA expr :
           IF ~expr.ok THEN Err("Bad expression for .RESERVE", expr.pos)
           ELSE endOfDirective(ts, expr.pos, FillBlock(Constant(0), expr.v)))
    [] name = "DEFINE" ->
         With(scanIgnoreWhitespace(ts, pos), LAMBDA t :
           IF t.tok # "IDENT" THEN Err(".DEFINE's first argument must be an identifier", t.pos)
           ELSE With(consumeComma(ts, t.pos), LAMBDA c :
                  IF ~c.ok THEN Err("No comma after .DEFINE identifier", c.pos)
                  ELSE With(parseSimpleExpr(ts, c.pos), LAMBDA expr :
                         IF ~expr.ok THEN Err("Bad expression for .DEFINE", expr.pos)
                         ELSE endOfDirective(ts, expr.pos, SymbolDef(Join(t.lit), expr.v)))))
    [] OTHER -> Err("Unknown directive", pos)

parseDirective(ts, pos) ==
  With(scan(ts, pos), LAMBDA d :
    IF d.tok # "IDENT" THEN Err("Expected directive command after dot", d.pos)
    ELSE directive(Join(ToUpper(d.lit)), ts, d.pos))

parseReg(ts, pos) ==
  With(scanIgnoreWhitespace(ts, pos), LAMBDA t :
    IF t.tok = "REGISTER"
      THEN With(ParseDigits(Tail(t.lit), 10, 0), LAMBDA r :
             IF ~r.ok \/ Len(t.lit) < 2 THEN Err("Failed to parse number in register", t.pos)
             ELSE Ok(r.n % W, t.pos))
      ELSE Err("Expected register", unscan(t)))

parseLiteral(ts, pos) ==
  With(consume(ts, pos, "HASH"), LAMBDA c :
    IF ~c.ok THEN Err("Failed to parse # for literal", c.pos)
    ELSE parseSimpleExpr(ts, c.pos))

\* The last alternative of an argument: PC, SP, the end of the line, or a bad token.
argKeyword(t) ==
  IF t.tok = "PC" THEN [k |-> "arg", a |-> ArgPC, pos |-> t.pos]
  ELSE IF t.tok = "SP" THEN [k |-> "arg", a |-> ArgSP, pos |-> t.pos]
  ELSE IF t.tok \in {"NEWLINE", "EOF"} THEN [k |-> "end", a |-> Nil, pos |-> t.pos]
  ELSE [k |-> "bad", a |-> Nil, pos |-> t.pos]

\* One argument: a register, else a literal, else a label expression, else a keyword.
parseArg(ts, pos) ==
  With(parseReg(ts, pos), LAMBDA r :
    IF r.ok THEN [k |-> "arg", a |-> ArgReg(r.v), pos |-> r.pos]
    ELSE With(parseLiteral(ts, r.pos), LAMBDA lit :
      IF lit.ok THEN [k |-> "arg", a |-> ArgLiteral(lit.v), pos |-> lit.pos]
      ELSE With(parseSimpleExpr(ts, lit.pos), LAMBDA expression :
        IF expression.ok
          THEN [k |-> "arg", a |-> ArgLabel(expression.v), pos |-> expression.pos]
          ELSE argKeyword(scanIgnoreWhitespace(ts, expression.pos)))))

RECURSIVE argListLoop(_, _, _)
argListLoop(ts, pos, args) ==
  With(parseArg(ts, pos), LAMBDA arg :
    IF arg.k = "end" THEN Ok(args, arg.pos)
    ELSE IF arg.k = "bad" THEN Err("Expected argument", arg.pos)
    ELSE With(scanIgnoreWhitespace(ts, arg.pos), LAMBDA n :
           IF n.tok \in {"NEWLINE", "EOF"} THEN Ok(Append(args, arg.a), n.pos)
           ELSE IF n.tok # "COMMA" THEN Err("Expected comma or end of arg list", n.pos)
           ELSE argListLoop(ts, n.pos, Append(args, arg.a))))

parseArgList(ts, pos) == argListLoop(ts, pos, <<>>)

StackOp(regs, storing, lrpc, base) ==
  [kind |-> "StackOp", regs |-> regs, storing |-> storing, lrpc |-> lrpc, base |-> base]

LoadStore(storing, dest, base, preLit, preReg, postLit) ==
  [kind |-> "LoadStore", storing |-> storing, dest |-> dest, base |-> base,
   preLit |-> preLit, preReg |-> preReg, postLit |-> postLit]

\* rlistItem that keeps only the register named last.
rlistItemLast(opcode, pclrAllowed, t, r, regs, pclr) ==
  CASE t.tok = "REGISTER" ->
         [ok |-> TRUE, pclr |-> pclr, pos |-> r.pos,
          regs |-> IF r.ok /\ r.v < 8 THEN Shl(1, r.v) ELSE regs]
    [] t.tok = "PC" ->
         [ok |-> pclrAllowed /\ opcode = "POP", pclr |-> TRUE, pos |-> t.pos, regs |-> regs]
    [] t.tok = "LR" ->
         [ok |-> pclrAllowed /\ opcode = "PUSH", pclr |-> TRUE, pos |-> t.pos, regs |-> regs]
    [] OTHER -> [ok |-> TRUE, pclr |-> pclr, pos |-> t.pos, regs |-> regs]

\* The effect on the list of the switch on the token t, r being what parseReg
\* returns for it.
rlistItem(opcode, pclrAllowed, t, r, regs, pclr) ==
  CASE t.tok = "REGISTER" ->
         [ok |-> TRUE, pclr |-> pclr, pos |-> r.pos,
          regs |-> IF r.ok /\ r.v < 8 THEN BitOr(regs, Shl(1, r.v)) ELSE regs]
    [] t.tok = "PC" ->
         [ok |-> pclrAllowed /\ opcode = "POP", pclr |-> TRUE, pos |-> t.pos, regs |-> regs]
    [] t.tok = "LR" ->
         [ok |-> pclrAllowed /\ opcode = "PUSH", pclr |-> TRUE, pos |-> t.pos, regs |-> regs]
    [] OTHER -> [ok |-> TRUE, pclr |-> pclr, pos |-> t.pos, regs |-> regs]

RECURSIVE rlistLoop(_, _, _, _, _, _)
rlistLoop(opcode, pclrAllowed, ts, pos, regs, pclr) ==
  With(scanIgnoreWhitespace(ts, pos), LAMBDA t :
    With(rlistItem(opcode, pclrAllowed, t, parseReg(ts, unscan(t)), regs, pclr), LAMBDA sw :
      IF ~sw.ok THEN Err("Found PC or LR where it is not allowed", sw.pos)
      ELSE With(scanIgnoreWhitespace(ts, sw.pos), LAMBDA n :
             IF n.tok = "RBRACE" THEN Ok([regs |-> sw.regs, pclr |-> sw.pclr], n.pos)
             ELSE IF n.tok = "COMMA"
               THEN rlistLoop(opcode, pclrAllowed, ts, n.pos, sw.regs, sw.pclr)
             ELSE Err("Expected comma or } in register list", n.pos))))

\* parseRlist that reads every list as the list of a PUSH.
parseRlistAsPush(opcode, pclrAllowed, ts, pos) ==
  With(consume(ts, pos, "LBRACE"), LAMBDA c :
    IF ~c.ok THEN Err("Could not parse Rlist", c.pos)
    ELSE rlistLoop("PUSH", TRUE, ts, c.pos, 0, FALSE))


parseRlist(opcode, pclrAllowed, ts, pos) ==
  With(consume(ts, pos, "LBRACE"), LAMBDA c :
    IF ~c.ok THEN Err("Could not parse Rlist", c.pos)
    ELSE rlistLoop(opcode, pclrAllowed, ts, c.pos, 0, FALSE))

parsePushPop(opcode, ts, pos) ==
  With(parseRlist(opcode, TRUE, ts, pos), LAMBDA rl :
    IF ~rl.ok THEN Err("Error parsing register list", rl.pos)
    ELSE With(scanIgnoreWhitespace(ts, rl.pos), LAMBDA t :
           IF t.tok # "NEWLINE" THEN Err("Unexpected token at end of PUSH/POP", t.pos)
           ELSE Ok(StackOp(rl.v.regs, opcode = "PUSH", rl.v.pclr, 65535), t.pos)))

\* parseMultiStoreLoad that skips one token after the base register.
parseMultiStoreLoadSkipping(opcode, ts, pos) ==
  With(parseReg(ts, pos), LAMBDA base :
    IF ~base.ok THEN Err("Failed to parse base register", base.pos)
    ELSE With(consumeComma(ts, consume(ts, base.pos, "ILLEGAL").pos), LAMBDA c :
      IF ~c.ok THEN Err("Expected comma and register list", c.pos)
      ELSE With(parseRlist(opcode, FALSE, ts, c.pos), LAMBDA rl :
        IF ~rl.ok THEN Err("Error parsing register list", rl.pos)
        ELSE IF rl.v.pclr THEN Err("LR and PC not allowed in register list", rl.pos)
        ELSE With(scanIgnoreWhitespace(ts, rl.pos), LAMBDA t :
               IF t.tok # "NEWLINE" THEN Err("Unexpected token at end of line", t.pos)
               ELSE Ok(StackOp(rl.v.regs, opcode = "STMIA", FALSE, base.v), t.pos)))))


parseMultiStoreLoad(opcode, ts, pos) ==
  With(parseReg(ts, pos), LAMBDA base :
    IF ~base.ok THEN Err("Failed to parse base register", base.pos)
    ELSE With(consumeComma(ts, base.pos), LAMBDA c :
      IF ~c.ok THEN Err("Expected comma and register list", c.pos)
      ELSE With(parseRlist(opcode, FALSE, ts, c.pos), LAMBDA rl :
        IF ~rl.ok THEN Err("Error parsing register list", rl.pos)
        ELSE IF rl.v.pclr THEN Err("LR and PC not allowed in register list", rl.pos)
        ELSE With(scanIgnoreWhitespace(ts, rl.pos), LAMBDA t :
               IF t.tok # "NEWLINE" THEN Err("Unexpected token at end of line", t.pos)
               ELSE Ok(StackOp(rl.v.regs, opcode = "STMIA", FALSE, base.v), t.pos)))))

\* The rest of an LDR/STR line after "[PC" or "[SP".
loadStoreSpecial(opcode, dest, ts, pos) ==
  With(consumeComma(ts, pos), LAMBDA c :
    IF ~c.ok THEN Err("Expected comma", c.pos)
    ELSE With(parseLiteral(ts, c.pos), LAMBDA lit :
      IF ~lit.ok THEN Err("Error parsing literal offset", lit.pos)
      ELSE With(consume(ts, lit.pos, "RBRAC"), LAMBDA b :
        IF ~b.ok THEN Err("Expected ]", b.pos)
        ELSE With(consume(ts, b.pos, "NEWLINE"), LAMBDA n :
          IF ~n.ok THEN Err("Unexpected token at end of LDR/STR", n.pos)
          ELSE Ok(LoadStore(opcode = "STR", dest, 65535, lit.v, 65535, Nil), n.pos)))))

\* The end of the line of an LDR/STR statement o, read from pos.
loadStoreEnd(ts, pos, o) ==
  With(scanIgnoreWhitespace(ts, pos), LAMBDA n :
    IF n.tok # "NEWLINE" THEN Err("Unexpected token at end of LDR/STR", n.pos)
    ELSE Ok(o, n.pos))

\* The end of an LDR/STR line with a regular base: an optional post-increment.
loadStoreTail(ts, pos, ldst) ==
  With(scanIgnoreWhitespace(ts, pos), LAMBDA t :
    IF t.tok # "COMMA" THEN loadStoreEnd(ts, unscan(t), ldst)
    ELSE With(parseLiteral(ts, t.pos), LAMBDA postLit :
           IF ~postLit.ok THEN Err("Expected literal for post-increment", postLit.pos)
           ELSE loadStoreEnd(ts, postLit.pos, [ldst EXCEPT !.postLit = postLit.v])))

\* The closing bracket after the pre-indexed value of the LDR/STR statement o.
loadStoreClose(ts, pos, o) ==
  With(consume(ts, pos, "RBRAC"), LAMBDA b :
    IF ~b.ok THEN Err("Expected closing ] after base register", b.pos)
    ELSE loadStoreTail(ts, b.pos, o))

\* The pre-indexed value of the LDR/STR statement ldst: a literal, else a register.
loadStorePre(ts, pos, ldst) ==
  With(parseLiteral(ts, pos), LAMBDA preLit :
    IF preLit.ok THEN loadStoreClose(ts, preLit.pos, [ldst EXCEPT !.preLit = preLit.v])
    ELSE With(parseReg(ts, preLit.pos), LAMBDA preReg :
           IF ~preReg.ok THEN Err("Expected pre-indexed value", preReg.pos)
           ELSE loadStoreClose(ts, preReg.pos, [ldst EXCEPT !.preReg = preReg.v])))

\* The rest of an LDR/STR line after "[" when the base is not PC or SP.
loadStoreRegular(opcode, dest, ts, pos) ==
  With(parseReg(ts, pos), LAMBDA base :
    With(LoadStore(opcode = "STR", dest, IF base.ok THEN base.v ELSE 0, Nil, 65535, Nil),
         LAMBDA ldst :
      With(scanIgnoreWhitespace(ts, base.pos), LAMBDA t :
        IF t.tok = "COMMA" THEN loadStorePre(ts, t.pos, ldst)
        ELSE IF t.tok # "RBRAC" THEN Err("Expected comma or ] after base register", t.pos)
        ELSE loadStoreTail(ts, t.pos, ldst))))

parseLoadStore(opcode, ts, pos) ==
  With(parseReg(ts, pos), LAMBDA dest :
    IF ~dest.ok THEN Err("Expected source/destination register", dest.pos)
    ELSE With(consumeComma(ts, dest.pos), LAMBDA c :
      IF ~c.ok THEN Err("Couldn't find comma", c.pos)
      ELSE With(consume(ts, c.pos, "LBRAC"), LAMBDA b :
        IF ~b.ok THEN Err("Expected [", b.pos)
        ELSE With(scanIgnoreWhitespace(ts, b.pos), LAMBDA t :
          IF t.tok \in {"PC", "SP"} THEN loadStoreSpecial(opcode, dest.v, ts, t.pos)
          ELSE loadStoreRegular(opcode, dest.v, ts, unscan(t))))))

parseInstruction(opcode, ts, pos) ==
  IF opcode \in {"PUSH", "POP"} THEN parsePushPop(opcode, ts, pos)
  ELSE IF opcode \in {"LDMIA", "STMIA"} THEN parseMultiStoreLoad(opcode, ts, pos)
  ELSE IF opcode \in {"LDR", "STR"} THEN parseLoadStore(opcode, ts, pos)
  ELSE With(parseArgList(ts, pos), LAMBDA args :
         IF ~args.ok THEN Err("Failed to parse argument list", args.pos)
         ELSE Ok(Instruction(opcode, args.v), args.pos))

\* The loop of Parse(): the statements parsed so far and the position.  l is the
\* statement just parsed, or the error.
RECURSIVE parseLoop(_, _, _)
parsed(ts, ls, l) == IF ~l.ok THEN l ELSE parseLoop(ts, l.pos, Append(ls, l.v))

parseLoop(ts, pos, ls) ==
  With(scanIgnoreWhitespace(ts, pos), LAMBDA t :
    CASE t.tok = "DOT" -> parsed(ts, ls, parseDirective(ts, t.pos))
      [] t.tok = "IDENT" -> parsed(ts, ls, parseInstruction(Join(ToUpper(t.lit)), ts, t.pos))
      [] t.tok = "COLON" ->
           With(scan(ts, t.pos), LAMBDA n :
             IF n.tok = "IDENT" THEN parseLoop(ts, n.pos, Append(ls, LabelDef(Join(n.lit))))
             ELSE Err("Bad label", n.pos))
      [] t.tok = "NEWLINE" -> parseLoop(ts, t.pos, ls)
      [] t.tok = "EOF" -> Ok(ls, t.pos)
      [] OTHER -> Err("Unexpected token", t.pos))

Parse(ts) == parseLoop(ts, 1, <<>>)

----------------------------------------------------------------------------
(* The scanner (lexer.go).  The source text is a sequence of runes and the  *)
(* state of the scanner is the position of the next rune to read.           *)

eof == 0

isWhitespace(ch) == ch = 32 \/ ch = 9

isLetter(ch) == ch \in 65..90 \/ ch \in 97..122

isDigit(ch) == ch \in 48..57

isHexDigit(ch) == ch \in 48..57 \/ ch \in 97..102 \/ ch \in 65..70

\* s.read(): the next rune, or eof at the end of the text, where ReadRune fails
\* and reads nothing.
read(text, i) ==
  IF i <= Len(text) THEN [ch |-> text[i], pos |-> i + 1, ok |-> TRUE]
  ELSE [ch |-> eof, pos |-> i, ok |-> FALSE]

\* s.unread() after the read that returned r: UnreadRune steps back over the rune
\* read last and does nothing after a ReadRune that failed.
unread(r) == IF r.ok THEN r.pos - 1 ELSE r.pos

\* The tokens of one character.
punctuation ==
  [c \in {46, 35, 58, 44, 91, 93, 123, 125, 40, 41, 10, 43, 45, 42, 47, 38, 124, 94, 126} |->
     CASE c = 46 -> "DOT" [] c = 35 -> "HASH" [] c = 58 -> "COLON" [] c = 44 -> "COMMA"
       [] c = 91 -> "LBRAC" [] c = 93 -> "RBRAC" [] c = 123 -> "LBRACE" [] c = 125 -> "RBRACE"
       [] c = 40 -> "LPAREN" [] c = 41 -> "RPAREN" [] c = 10 -> "NEWLINE"
       [] c = 43 -> "PLUS" [] c = 45 -> "MINUS" [] c = 42 -> "TIMES" [] c = 47 -> "DIVIDE"
       [] c = 38 -> "AND" [] c = 124 -> "OR" [] c = 94 -> "XOR" [] c = 126 -> "NOT"]

\* keywords[strings.ToUpper(st)], or IDENT.
keywords(st) ==
  IF st \in {"PC", "SP", "LR"} THEN st
  ELSE IF st \in {"R0", "R1", "R2", "R3", "R4", "R5", "R6", "R7"} THEN "REGISTER"
  ELSE "IDENT"

\* The predicates given to scanWhile: isWhitespace, and func(c) { return c != '\n' }.
holds(p, ch) == IF p = "isWhitespace" THEN isWhitespace(ch) ELSE ch # 10

\* The loop of scanWhile.
RECURSIVE scanWhileLoop(_, _, _, _)
scanWhileLoop(text, pos, p, buf) ==
  With(read(text, pos), LAMBDA r :
    IF r.ch = eof THEN [lit |-> buf, pos |-> r.pos]
    ELSE IF ~holds(p, r.ch) THEN [lit |-> buf, pos |-> unread(r)]
    ELSE scanWhileLoop(text, r.pos, p, Append(buf, r.ch)))

\* scanWhile: the first rune is read into the buffer without being tested.
scanWhile(text, pos, p, t) ==
  With(read(text, pos), LAMBDA first :
    With(scanWhileLoop(text, first.pos, p, <<first.ch>>), LAMBDA l :
      [tok |-> t, lit |-> l.lit, pos |-> l.pos]))

\* The loop of scanIdent.
RECURSIVE identLoop(_, _, _)
identLoop(text, pos, buf) ==
  With(read(text, pos), LAMBDA r :
    IF r.ch = eof THEN [lit |-> buf, pos |-> r.pos]
    ELSE IF ~isLetter(r.ch) /\ ~isDigit(r.ch) /\ r.ch # 95 THEN [lit |-> buf, pos |-> unread(r)]
    ELSE identLoop(text, r.pos, Append(buf, r.ch)))

scanIdent(text, pos) ==
  With(read(text, pos), LAMBDA first :
    With(identLoop(text, first.pos, <<first.ch>>), LAMBDA l :
      [tok |-> keywords(Join(ToUpper(l.lit))), lit |-> l.lit, pos |-> l.pos]))

\* The loop of scanNumber.
RECURSIVE numberLoop(_, _, _, _, _)
numberLoop(text, pos, firstZero, count, buf) ==
  With(read(text, pos), LAMBDA r :
    IF isHexDigit(r.ch) \/ (firstZero /\ count = 1 /\ r.ch = 120)
      THEN numberLoop(text, r.pos, firstZero, count + 1, Append(buf, r.ch))
      ELSE [tok |-> "NUMBER", lit |-> buf, pos |-> unread(r)])

scanNumber(text, pos) ==
  With(read(text, pos), LAMBDA r : numberLoop(text, r.pos, r.ch = 48, 1, <<r.ch>>))

RECURSIVE scanStringLiteral(_, _, _)
scanStringLiteral(text, pos, buf) ==
  With(read(text, pos), LAMBDA r :
    IF r.ch = 34 THEN [tok |-> "STRING", lit |-> buf, pos |-> r.pos]
    ELSE IF r.ch = eof THEN [tok |-> "ILLEGAL", lit |-> buf, pos |-> r.pos]
    ELSE scanStringLiteral(text, r.pos, Append(buf, r.ch)))

\* case '<' (c = 60, t = LANGLES) and case '>' (c = 62, t = RANGLES).
angles(text, pos, c, t) ==
  With(read(text, pos), LAMBDA next :
    IF next.ch = c THEN [tok |-> t, lit |-> <<c, c>>, pos |-> next.pos]
    ELSE [tok |-> "ILLEGAL", lit |-> <<c, next.ch>>, pos |-> next.pos])

\* The switch of innerScan on the rune r.ch just read.
scanChar(text, r) ==
  IF r.ch = eof THEN [tok |-> "EOF", lit |-> <<>>, pos |-> r.pos]
  ELSE IF r.ch \in DOMAIN punctuation
    THEN [tok |-> punctuation[r.ch], lit |-> <<r.ch>>, pos |-> r.pos]
  ELSE IF r.ch = 60 THEN angles(text, r.pos, 60, "LANGLES")
  ELSE IF r.ch = 62 THEN angles(text, r.pos, 62, "RANGLES")
  ELSE IF r.ch = 59 THEN scanWhile(text, r.pos, "notNewline", "WS")
  ELSE IF r.ch = 34 THEN scanStringLiteral(text, r.pos, <<>>)
  ELSE [tok |-> "ILLEGAL", lit |-> <<r.ch>>, pos |-> r.pos]

innerScan(text, pos) ==
  With(read(text, pos), LAMBDA r :
    IF isWhitespace(r.ch) THEN scanWhile(text, unread(r), "isWhitespace", "WS")
    ELSE IF isLetter(r.ch) \/ r.ch = 95 THEN scanIdent(text, unread(r))
    ELSE IF isDigit(r.ch) THEN scanNumber(text, unread(r))
    ELSE scanChar(text, r))

\* The tokens Scan() returns, call after call, up to EOF.
RECURSIVE scanAll(_, _, _)
scanAll(text, pos, acc) ==
  With(innerScan(text, pos), LAMBDA t :
    IF t.tok = "EOF" THEN acc ELSE scanAll(text, t.pos, Append(acc, Tok(t.tok, t.lit))))

Scan(text) == scanAll(text, 1, <<>>)

----------------------------------------------------------------------------
(* Input programs.  Arguments of .ORG and .FILL that read a label are      *)
(* masked so that every program has finitely many reachable states.        *)

OrgStmts ==
  { Org(Constant(0)), Org(Constant(65535)),
    Org(BinExpr(LabelUse("b"), "AND", Constant(1))) }

DefStmts ==
  { LabelDef("a"), LabelDef("b"),
    SymbolDef("s", LabelUse("a")), SymbolDef("s", Constant(7)) }

DataStmts ==
  { DatBlock(<<Constant(1)>>),
    DatBlock(<<LabelUse("s"), Constant(2)>>),
    DatBlock(<<BinExpr(Constant(2), "DIVIDE", LabelUse("a"))>>),
    FillBlock(BinExpr(UnaryExpr("NOT", LabelUse("a")), "AND", Constant(1)), Constant(0)) }

InstrStmts ==
  { Instruction("B", <<ArgLabel(LabelUse("a"))>>),
    Instruction("MOV", <<ArgReg(1), ArgLiteral(UnaryExpr("MINUS", LabelUse("b")))>>),
    Instruction("ADD", <<ArgReg(0), ArgLiteral(Constant(256))>>),
    Instruction("RET", <<>>),
    Instruction("FOO", <<>>),
    Instruction("SWI", <<ArgPC>>) }

GenStmts == OrgStmts \cup DefStmts \cup DataStmts \cup InstrStmts

\* Statements that emit the same number of words in every pass and never fail.
FixedStmts ==
  { DatBlock(<<Constant(1)>>), Instruction("RET", <<>>),
    FillBlock(Constant(254), Constant(0)), FillBlock(Constant(255), Constant(0)) }

SeqsUpTo(S, n) == UNION { [1..k -> S] : k \in 0..n }

\* A forward branch to "a" with fixed-size statements between it and its label.
ForwardPrograms ==
  { pre \o <<Instruction("B", <<ArgLabel(LabelUse("a"))>>)>> \o mid \o <<LabelDef("a")>> :
      pre \in { <<>>, <<Org(Constant(65535))>>, <<Org(Constant(65280))>> },
      mid \in SeqsUpTo(FixedStmts, MaxMid) }

\* "ADD r0, #(a - 1)" before the label "a": the literal is in range once "a" has
\* its address, and is 0 - 1 while "a" is still read as 0.
ProvisionalPrograms ==
  { <<Instruction("ADD", <<ArgReg(0),
                           ArgLiteral(BinExpr(LabelUse("a"), "MINUS", Constant(1)))>>)>>
      \o mid \o <<LabelDef("a")>> :
      mid \in SeqsUpTo({DatBlock(<<Constant(1)>>)}, 1) }

\* A forward branch that is long in the first pass and short afterwards, followed
\* by code at a fixed address: "B a", "RET", ":a", ".ORG 4", ".DAT 1".
ShrinkingPrograms ==
  { << Instruction("B", <<ArgLabel(LabelUse("a"))>>), Instruction("RET", <<>>), LabelDef("a"),
       Org(Constant(4)), DatBlock(<<Constant(1)>>) >> }

Programs ==
  SeqsUpTo(GenStmts, MaxLines) \cup ForwardPrograms \cup ProvisionalPrograms
    \cup ShrinkingPrograms

Sources == { [ok |-> TRUE, ast |-> p] : p \in Programs } \cup { [ok |-> FALSE, ast |-> <<>>] }

----------------------------------------------------------------------------
(* The driver (main.go). *)

Init ==
  /\ pc = "parse"
  /\ src \in Sources
  /\ lines = <<>>
  /\ li = 1
  /\ s = NewState
  /\ err = ""
  /\ out = [written |-> FALSE, end |-> 0]
  /\ passes = 0
  /\ start = <<>>
  /\ at = <<>>
  /\ writes = <<>>
  /\ changed = FALSE
  /\ call = [fn |-> "main"]
  /\ ret = [done |-> FALSE]

\* p.Parse() fails: main prints the error and returns.
ParseError ==
  /\ pc = "parse"
  /\ ~src.ok
  /\ pc' = "exit"
  /\ err' = "parse error"
  /\ UNCHANGED <<src, lines, li, s, out, passes, start, at, writes, changed>>
  /\ UNCHANGED uvars

\* p.Parse() succeeds: the state is created and reset.
ParseOk ==
  /\ pc = "parse"
  /\ src.ok
  /\ lines' = src.ast
  /\ s' = reset(NewState)
  /\ li' = 1
  /\ pc' = "collect"
  /\ UNCHANGED <<src, err, out, passes, start, at, writes, changed>>
  /\ UNCHANGED uvars

\* One iteration of the label collection loop.
CollectLabel ==
  /\ pc = "collect"
  /\ li <= Len(lines)
  /\ s' = IF lines[li].kind = "LabelDef" THEN addLabel(s, lines[li].label) ELSE s
  /\ li' = li + 1
  /\ UNCHANGED <<pc, src, lines, err, out, passes, start, at, writes, changed>>
  /\ UNCHANGED uvars

\* End of the collection loop: s.dirty = true.
BeginAssembly ==
  /\ pc = "collect"
  /\ li > Len(lines)
  /\ s' = [s EXCEPT !.dirty = TRUE]
  /\ pc' = "loop"
  /\ UNCHANGED <<src, lines, li, err, out, passes, start, at, writes, changed>>
  /\ UNCHANGED uvars

\* The loop condition holds: reset and start replaying.
StartPass ==
  /\ pc = "loop"
  /\ s.dirty \/ ~s.resolved
  /\ s' = reset(s)
  /\ li' = 1
  /\ pc' = "replay"
  /\ passes' = IF passes < MaxPasses THEN passes + 1 ELSE passes
  /\ start' = s.labels
  /\ at' = <<>>
  /\ writes' = <<>>
  /\ changed' = FALSE
  /\ UNCHANGED <<src, lines, err, out>>
  /\ UNCHANGED uvars

\* The loop condition fails.
ExitLoop ==
  /\ pc = "loop"
  /\ ~(s.dirty \/ ~s.resolved)
  /\ pc' = "output"
  /\ UNCHANGED <<src, lines, li, s, err, out, passes, start, at, writes, changed>>
  /\ UNCHANGED uvars

\* The effect of l.Assemble(s) for the statement l = lines[li], given its outcome m.
Replayed(m, value) ==
  /\ s' = m.s
  /\ writes' = m.writes
  /\ err' = m.err
  /\ at' = Append(at, [cursor |-> s.index, value |-> value])
  /\ changed' = (changed \/ m.s.labels # s.labels)
  /\ IF m.err # "" THEN pc' = "exit" /\ li' = li
                   ELSE pc' = "replay" /\ li' = li + 1
  /\ UNCHANGED <<src, lines, out, passes, start>>
  /\ UNCHANGED uvars

Ctx == [s |-> s, err |-> "", writes |-> writes]

AssembleOrg ==
  /\ pc = "replay" /\ li <= Len(lines) /\ lines[li].kind = "Org"
  /\ Replayed(OrgAssemble(lines[li], Ctx), 0)

AssembleSymbolDef ==
  /\ pc = "replay" /\ li <= Len(lines) /\ lines[li].kind = "SymbolDef"
  /\ Replayed(SymbolDefAssemble(lines[li], Ctx), Evaluate(lines[li].value, s).v)

AssembleDatBlock ==
  /\ pc = "replay" /\ li <= Len(lines) /\ lines[li].kind = "DatBlock"
  /\ Replayed(DatBlockAssemble(lines[li], Ctx), 0)

AssembleFillBlock ==
  /\ pc = "replay" /\ li <= Len(lines) /\ lines[li].kind = "FillBlock"
  /\ Replayed(FillBlockAssemble(lines[li], Ctx), 0)

AssembleLabelDef ==
  /\ pc = "replay" /\ li <= Len(lines) /\ lines[li].kind = "LabelDef"
  /\ Replayed(LabelDefAssemble(lines[li], Ctx), 0)

AssembleInstruction ==
  /\ pc = "replay" /\ li <= Len(lines) /\ lines[li].kind = "Instruction"
  /\ Replayed(InstructionAssemble(lines[li], Ctx), 0)

\* All statements replayed: print the flags and test the loop condition again.
EndPass ==
  /\ pc = "replay"
  /\ li > Len(lines)
  /\ pc' = "loop"
  /\ UNCHANGED <<src, lines, li, s, err, out, passes, start, at, writes, changed>>
  /\ UNCHANGED uvars

\* Write rom[0 .. index-1] to out.bin.
WriteOutput ==
  /\ pc = "output"
  /\ out' = [written |-> TRUE, end |-> s.index]
  /\ pc' = "done"
  /\ UNCHANGED <<src, lines, li, s, err, passes, start, at, writes, changed>>
  /\ UNCHANGED uvars

Next ==
  \/ ParseError
  \/ ParseOk
  \/ CollectLabel
  \/ BeginAssembly
  \/ StartPass
  \/ ExitLoop
  \/ AssembleOrg
  \/ AssembleSymbolDef
  \/ AssembleDatBlock
  \/ AssembleFillBlock
  \/ AssembleLabelDef
  \/ AssembleInstruction
  \/ EndPass
  \/ WriteOutput

Spec == Init /\ [][Next]_vars

\* main() is a sequential program: it keeps running until it returns or exits.
\* Termination is checked on the general programs of at most MaxFairLines lines.
FairInit == Init /\ src.ast \in SeqsUpTo(GenStmts, MaxFairLines)
FairSpec == FairInit /\ [][Next]_vars /\ WF_vars(Next)

----------------------------------------------------------------------------
(* Token streams: what the scanner (lexer.go) returns for the source lines  *)
(* given to the parser on its own.                                          *)

\* The runes of the names written in the source lines.
Runes ==
  [DAT |-> <<68, 65, 84>>, ORG |-> <<79, 82, 71>>, FILL |-> <<70, 73, 76, 76>>,
   RESERVE |-> <<82, 69, 83, 69, 82, 86, 69>>,
   MOV |-> <<77, 79, 86>>, NEG |-> <<78, 69, 71>>, CMP |-> <<67, 77, 80>>,
   ADD |-> <<65, 68, 68>>, SUB |-> <<83, 85, 66>>, MUL |-> <<77, 85, 76>>,
   LSL |-> <<76, 83, 76>>, LSR |-> <<76, 83, 82>>, ASR |-> <<65, 83, 82>>,
   AND |-> <<65, 78, 68>>, ORR |-> <<79, 82, 82>>, XOR |-> <<88, 79, 82>>,
   MVH |-> <<77, 86, 72>>, SWI |-> <<83, 87, 73>>,
   B |-> <<66>>, BL |-> <<66, 76>>, BNE |-> <<66, 78, 69>>, BLE |-> <<66, 76, 69>>,
   PUSH |-> <<80, 85, 83, 72>>, POP |-> <<80, 79, 80>>,
   LDMIA |-> <<76, 68, 77, 73, 65>>, STMIA |-> <<83, 84, 77, 73, 65>>,
   LDR |-> <<76, 68, 82>>, STR |-> <<83, 84, 82>>]

\* The literal of the tokens that are one fixed piece of text.
Punct ==
  [DOT |-> <<46>>, HASH |-> <<35>>, COLON |-> <<58>>, COMMA |-> <<44>>,
   LBRAC |-> <<91>>, RBRAC |-> <<93>>, LBRACE |-> <<123>>, RBRACE |-> <<125>>,
   LPAREN |-> <<40>>, RPAREN |-> <<41>>, NEWLINE |-> <<10>>,
   PLUS |-> <<43>>, MINUS |-> <<45>>, TIMES |-> <<42>>, DIVIDE |-> <<47>>,
   LANGLES |-> <<60, 60>>, RANGLES |-> <<62, 62>>,
   AND |-> <<38>>, OR |-> <<124>>, XOR |-> <<94>>, NOT |-> <<126>>,
   PC |-> <<80, 67>>, SP |-> <<83, 80>>, LR |-> <<76, 82>>]

\* The decimal digits of n.
RECURSIVE DecRunes(_)
DecRunes(n) == IF n < 10 THEN <<48 + n>> ELSE Append(DecRunes(n \div 10), 48 + (n % 10))

Sym(k) == Tok(k, Punct[k])
Num(n) == Tok("NUMBER", DecRunes(n))
Reg(n) == Tok("REGISTER", <<114>> \o DecRunes(n))
Id(name) == Tok("IDENT", Runes[name])
Str(lit) == Tok("STRING", lit)
Blank == Tok("WS", <<32>>)

\* The tokens ts with a blank between every two of them.
RECURSIVE Spaced(_)
Spaced(ts) == IF Len(ts) <= 1 THEN ts ELSE <<Head(ts), Blank>> \o Spaced(Tail(ts))

\* The operands gs, each a sequence of tokens, separated by ", ".
RECURSIVE Operands(_)
Operands(gs) ==
  IF gs = <<>> THEN <<>>
  ELSE IF Len(gs) = 1 THEN Head(gs)
  ELSE Head(gs) \o <<Sym("COMMA"), Blank>> \o Operands(Tail(gs))

DirectiveLine(name, gs) ==
  <<Sym("DOT"), Id(name), Blank>> \o Operands(gs) \o <<Sym("NEWLINE")>>

InstrLine(name, gs) == <<Id(name), Blank>> \o Operands(gs) \o <<Sym("NEWLINE")>>

Imm(n) == <<Sym("HASH"), Num(n)>>

\* A line preceded by ".ORG c".
At(c, line) == DirectiveLine("ORG", <<<<Num(c)>>>>) \o line

\* Expressions (C11, C12).
AddOps == {"PLUS", "MINUS", "OR", "XOR"}
MulOps == {"TIMES", "DIVIDE", "AND"}
BinOps == AddOps \cup MulOps
UnOps == {"PLUS", "MINUS", "NOT"}
ShiftOps == {"LANGLES", "RANGLES"}

ChainToks(op1, op2) == Spaced(<<Num(7), Sym(op1), Num(2), Sym(op2), Num(3)>>)

LeftParenToks(op1, op2) ==
  <<Sym("LPAREN")>> \o Spaced(<<Num(7), Sym(op1), Num(2)>>) \o <<Sym("RPAREN"), Blank>>
    \o Spaced(<<Sym(op2), Num(3)>>)

RightParenToks(op1, op2) ==
  Spaced(<<Num(7), Sym(op1)>>) \o <<Blank, Sym("LPAREN")>>
    \o Spaced(<<Num(2), Sym(op2), Num(3)>>) \o <<Sym("RPAREN")>>

UnaryToks(u1, u2) == <<Sym(u1), Sym(u2), Num(5)>>

\* 1 + 2 * 3, (1 + 2) * 3, ~0, -1
Example123 == Spaced(<<Num(1), Sym("PLUS"), Num(2), Sym("TIMES"), Num(3)>>)
ExampleParen123 ==
  <<Sym("LPAREN")>> \o Spaced(<<Num(1), Sym("PLUS"), Num(2)>>) \o <<Sym("RPAREN"), Blank>>
    \o Spaced(<<Sym("TIMES"), Num(3)>>)
ExampleNot0 == <<Sym("NOT"), Num(0)>>
ExampleMinus1 == <<Sym("MINUS"), Num(1)>>

ShiftToks(op) == Spaced(<<Num(4), Sym(op), Num(1)>>)

ExprToks ==
  { ChainToks(op1, op2) : op1 \in BinOps, op2 \in BinOps }
    \cup { LeftParenToks(op1, op2) : op1 \in BinOps, op2 \in BinOps }
    \cup { RightParenToks(op1, op2) : op1 \in BinOps, op2 \in BinOps }
    \cup { UnaryToks(u1, u2) : u1 \in UnOps, u2 \in UnOps }
    \cup { Example123, ExampleParen123, ExampleNot0, ExampleMinus1 }
    \cup { ShiftToks(op) : op \in ShiftOps }

ExprLines == { DirectiveLine("DAT", <<e>>) : e \in ExprToks }

\* Literal operands (C14, C15, C16).
LiteralCursor == 16
LiteralRegs == {0, 3, 7}
ByteOps == DOMAIN riInstructions \ {"MOV"}
ByteSamples == {0, 1, 5, 255, 256}
MovSamples ==
  {0, 1, 5, 255, 256, 257, 4660, 32768, 65279, 65280, 65281, 65534, 65535}

RILine(op, rd, n) == At(LiteralCursor, InstrLine(op, << <<Reg(rd)>>, Imm(n) >>))
AddPCLine(rd, n) ==
  At(LiteralCursor, InstrLine("ADD", << <<Reg(rd)>>, <<Sym("PC")>>, Imm(n) >>))
AddSPLine(rd, n) ==
  At(LiteralCursor, InstrLine("ADD", << <<Reg(rd)>>, <<Sym("SP")>>, Imm(n) >>))
StackAdjustLine(op, n) == At(LiteralCursor, InstrLine(op, << <<Sym("SP")>>, Imm(n) >>))
SWILine(n) == At(LiteralCursor, InstrLine("SWI", << Imm(n) >>))

\* The lines whose literal is an 8-bit unsigned field, with the literal n.
ByteLines(n) ==
  { RILine(op, rd, n) : op \in ByteOps, rd \in LiteralRegs }
    \cup { AddPCLine(rd, n) : rd \in LiteralRegs }
    \cup { AddSPLine(rd, n) : rd \in LiteralRegs }
    \cup { StackAdjustLine(op, n) : op \in {"ADD", "SUB"} }
    \cup { SWILine(n) }

MovLines == { RILine("MOV", rd, v) : rd \in LiteralRegs, v \in MovSamples }

LiteralLines == MovLines \cup UNION { ByteLines(n) : n \in ByteSamples }

\* Branches (C17, C18): a branch at the cursor c whose target is c + 1 + d.
BranchOps == {"B", "BL", "BNE", "BLE"}
BranchCursors == {0, 300, 65535}
BranchOffsets ==
  {0, 1, 254, 255, 256, 257, 511, 32767, 32768, 65023, 65279, 65280, 65281, 65534, 65535}

BranchTarget(c, d) == U16(c + 1 + d)

BranchLine(op, c, d) == At(c, InstrLine(op, << <<Num(BranchTarget(c, d))>> >>))

BranchLines ==
  { BranchLine(op, c, d) : op \in BranchOps, c \in BranchCursors, d \in BranchOffsets }

\* Data (C19): .DAT with up to MaxDatItems values from DatItems.
MaxDatItems == 2
DataCursor == 8
DatValues == {1, 300}
\* "AB", "z", the one character U+00E9, and the empty string
DatStrings == { <<65, 66>>, <<122>>, <<233>>, <<>> }
DatItems == { <<Num(n)>> : n \in DatValues } \cup { <<Str(lit)>> : lit \in DatStrings }

DatLine(gs) == At(DataCursor, DirectiveLine("DAT", gs))

DatLines == { DatLine(gs) : gs \in UNION { [1..k -> DatItems] : k \in 1..MaxDatItems } }

\* Fills (C20): lengths up to MaxFillLen.
MaxFillLen == 3
FillValues == {0, 5}

FillLine(v, n) == At(DataCursor, DirectiveLine("FILL", << <<Num(v)>>, <<Num(n)>> >>))
ReserveLine(n) == At(DataCursor, DirectiveLine("RESERVE", << <<Num(n)>> >>))

FillLines ==
  { FillLine(v, n) : v \in FillValues, n \in 0..MaxFillLen }
    \cup { ReserveLine(n) : n \in 0..MaxFillLen }

\* Register lists (C21, C22, C23): up to MaxRlist items between the braces.
MaxRlist == 3
RlistItems == { <<Reg(0)>>, <<Reg(3)>>, <<Reg(7)>>, <<Sym("LR")>>, <<Sym("PC")>> }
RlistSeqs == UNION { [1..k -> RlistItems] : k \in 1..MaxRlist }
MultiBases == {2, 5}

\* '!' is no character the scanner knows: innerScan returns it as ILLEGAL.
Bang == Tok("ILLEGAL", <<33>>)

Rlist(gs) == <<Sym("LBRACE")>> \o Operands(gs) \o <<Sym("RBRACE")>>

PushPopLine(op, gs) == At(LiteralCursor, InstrLine(op, << Rlist(gs) >>))

\* "op rb!, {list}" or, without the marker, "op rb, {list}".
MultiLine(op, rb, marker, gs) ==
  At(LiteralCursor,
     InstrLine(op, << <<Reg(rb)>> \o (IF marker THEN <<Bang>> ELSE <<>>), Rlist(gs) >>))

StackLines ==
  { PushPopLine(op, gs) : op \in {"PUSH", "POP"}, gs \in RlistSeqs }
    \cup { MultiLine(op, rb, marker, gs) :
             op \in {"LDMIA", "STMIA"}, rb \in MultiBases, marker \in BOOLEAN, gs \in RlistSeqs }


\* Memory operands (C24, C25, C26): "op rd, [base]", "op rd, [base, pre]",
\* "op rd, [base], #post" and "op rd, [base, pre], #post".
MemDests == {0, 3}
MemBaseRegs == {1, 6}
MemBases == { <<Reg(rb)>> : rb \in MemBaseRegs } \cup { <<Sym("PC")>>, <<Sym("SP")>> }
MemOffsets == {0, 1, 2, 15, 16}
MemPres == { <<>> } \cup { <<Imm(n)>> : n \in MemOffsets } \cup { << <<Reg(4)>> >> }
MemPosts == { <<>> } \cup { <<Imm(n)>> : n \in MemOffsets }

Bracket(b, pre) == <<Sym("LBRAC")>> \o Operands(<<b>> \o pre) \o <<Sym("RBRAC")>>

MemLine(op, rd, b, pre, post) ==
  At(LiteralCursor, InstrLine(op, << <<Reg(rd)>>, Bracket(b, pre) >> \o post))

MemLines ==
  { MemLine(op, rd, b, pre, post) :
      op \in {"LDR", "STR"}, rd \in MemDests, b \in MemBases, pre \in MemPres, post \in MemPosts }


\* Source texts (C29): up to MaxSrcLines lines, each some code, an optional
\* comment and the line terminator.
MaxSrcLines == 2
SrcCode == { <<>>, <<97>>, <<49, 32>> }
SrcComments == { <<>>, <<59>>, <<59, 32, 99>>, <<59, 59>>, <<59, 34>> }
SrcLine(code, comment) == code \o comment \o <<10>>

RECURSIVE Concat(_)
Concat(xs) == IF xs = <<>> THEN <<>> ELSE Head(xs) \o Concat(Tail(xs))

\* The text of the lines ls, each a pair <<code, comment>>.
SrcText(ls) == Concat([i \in DOMAIN ls |-> SrcLine(ls[i][1], ls[i][2])])

\* The same lines without their comments.
Uncommented(ls) == Concat([i \in DOMAIN ls |-> SrcLine(ls[i][1], <<>>)])

SrcLists == UNION { [1..k -> SrcCode \X SrcComments] : k \in 1..MaxSrcLines }

UnitSources ==
  ExprLines \cup LiteralLines \cup BranchLines \cup DatLines \cup FillLines \cup StackLines
    \cup MemLines

\* checkLiteral (C13): the values around the limits of a field of width w.
LiteralWidths == {4, 8, 9}

LiteralSamples(w) ==
  {0, 1, Pow2(w - 1) - 1, Pow2(w - 1), Pow2(w) - 1, Pow2(w), Pow2(w) + 1, 32768,
   W - Pow2(w) - 1, W - Pow2(w), W - Pow2(w - 1) - 1, W - Pow2(w - 1), W - 1}

UnitCalls ==
  { [fn |-> "Parse", tokens |-> ts] : ts \in UnitSources }
    \cup { [fn |-> "Scan", src |-> ls] : ls \in SrcLists }
    \cup { [fn |-> "checkLiteral", value |-> v, signed |-> sg, width |-> w] :
             w \in LiteralWidths, sg \in BOOLEAN, v \in UNION { LiteralSamples(x) : x \in LiteralWidths } }

----------------------------------------------------------------------------
(* Functions applied on their own: the parser followed by the first pass   *)
(* over what it parsed, and checkLiteral.                                  *)

UnitParse ==
  /\ call.fn = "Parse"
  /\ ~ret.done
  /\ ret' = With(Parse(call.tokens), LAMBDA r : [done |-> TRUE, ok |-> r.ok, v |-> r.v])
  /\ UNCHANGED <<call, pc, src, lines, li, s, err, out, passes, start, at, writes, changed>>

UnitReplay ==
  /\ call.fn = "Parse"
  /\ ret.done
  /\ ret.ok
  /\ call' = [fn |-> "Replay", tokens |-> call.tokens, lines |-> ret.v]
  /\ ret' = [done |-> TRUE, m |-> FirstPass(ret.v)]
  /\ UNCHANGED <<pc, src, lines, li, s, err, out, passes, start, at, writes, changed>>

UnitCheckLiteral ==
  /\ call.fn = "checkLiteral"
  /\ ~ret.done
  /\ ret' = [done |-> TRUE,
             r |-> checkLiteral(NewState, Constant(call.value), call.signed, call.width)]
  /\ UNCHANGED <<call, pc, src, lines, li, s, err, out, passes, start, at, writes, changed>>

\* The scanner applied to a source text until it returns EOF.
UnitScan ==
  /\ call.fn = "Scan"
  /\ ~ret.done
  /\ ret' = [done |-> TRUE, tokens |-> Scan(SrcText(call.src))]
  /\ UNCHANGED <<call, pc, src, lines, li, s, err, out, passes, start, at, writes, changed>>

UnitNext ==
  \/ UnitParse
  \/ UnitReplay
  \/ UnitCheckLiteral
  \/ UnitScan

UnitInit ==
  /\ pc = "unit"
  /\ src = [ok |-> FALSE, ast |-> <<>>]
  /\ lines = <<>>
  /\ li = 1
  /\ s = NewState
  /\ err = ""
  /\ out = [written |-> FALSE, end |-> 0]
  /\ passes = 0
  /\ start = <<>>
  /\ at = <<>>
  /\ writes = <<>>
  /\ changed = FALSE
  /\ call \in UnitCalls
  /\ ret = [done |-> FALSE]

UnitSpec == UnitInit /\ [][UnitNext]_vars

TypeOK ==
  /\ pc \in {"parse", "collect", "loop", "replay", "output", "done", "exit"}
  /\ s.index \in 0..65535
  /\ \A a \in DOMAIN s.rom : s.rom[a] \in 0..65535
  /\ s.used \subseteq DOMAIN s.rom

----------------------------------------------------------------------------
(* Helpers for stating the properties. *)

Terminated == pc \in {"done", "exit"}
LoopExited == pc \in {"output", "done"}

DefPositions(l) == { j \in 1..Len(lines) : lines[j] = LabelDef(l) }
UniqueDef(l) == Cardinality(DefPositions(l)) = 1
DefPos(l) == CHOOSE j \in DefPositions(l) : TRUE

BranchA == Instruction("B", <<ArgLabel(LabelUse("a"))>>)
BranchPos == CHOOSE i \in 1..Len(lines) : lines[i] = BranchA

IsForwardRef(p) ==
  \E i, j \in 1..Len(p) :
    /\ i < j
    /\ p[i] = BranchA
    /\ p[j] = LabelDef("a")
    /\ \A k \in (1..Len(p)) \ {i, j} :
         \/ p[k] \in FixedStmts
         \/ k = 1 /\ p[k].kind = "Org" /\ p[k].loc.kind = "Constant"

SignExt9(off) == IF off >= 256 THEN off + W - 512 ELSE off

\* The branch word(s) at cursor c denote the address t.
BranchDenotes(c, t) ==
  LET w == RomAt(s, c) IN
  /\ Shr(w, 9) = 80
  /\ IF BitAnd(w, 511) # 511
       THEN U16(c + 1 + SignExt9(BitAnd(w, 511))) = t
       ELSE RomAt(s, U16(c + 1)) = t

\* The expression a statement evaluates first when it is replayed.
FirstOperand(st) ==
  CASE st.kind = "Org" -> st.loc
    [] st.kind = "SymbolDef" -> st.value
    [] st.kind = "DatBlock" /\ Len(st.values) > 0 -> st.values[1]
    [] st.kind = "FillBlock" -> st.length
    [] st.kind = "Instruction" /\ st.opcode \in DOMAIN branchInstructions
         /\ Len(st.args) = 1 /\ st.args[1].kind = "AT_LABEL" -> st.args[1].label
    [] st.kind = "Instruction" /\ st.opcode \in DOMAIN riInstructions
         /\ Len(st.args) = 2 /\ st.args[1].kind = "AT_REG"
         /\ st.args[2].kind = "AT_LITERAL" -> st.args[2].lit
    [] OTHER -> Constant(0)

\* The name a statement reads directly as its first operand, "" if none.
OperandLabel(st) ==
  IF FirstOperand(st).kind = "LabelUse" THEN FirstOperand(st).label ELSE ""

\* The statement about to be replayed reads a collected label with no value yet.
ReadsUndefinedLabel ==
  /\ pc = "replay"
  /\ li <= Len(lines)
  /\ OperandLabel(lines[li]) \in DOMAIN s.labels
  /\ ~s.labels[OperandLabel(lines[li])].defined

HasDuplicateLabel(p) ==
  \E i, j \in 1..Len(p) :
    i < j /\ p[i].kind = "LabelDef" /\ p[j].kind = "LabelDef" /\ p[i].label = p[j].label

WrittenAddresses == { writes[i][1] : i \in 1..Len(writes) }

HasOrg(p) == \E i \in 1..Len(p) : p[i].kind = "Org"

MaxOf(S) == CHOOSE x \in S : \A y \in S : y <= x

AllMnemonics ==
  DOMAIN riInstructions \cup DOMAIN rrrInstructions \cup DOMAIN rrInstructions
    \cup DOMAIN rInstructions \cup DOMAIN voidInstructions
    \cup DOMAIN branchInstructions \cup specialInstructions

UnknownOpcode(st) == st.kind = "Instruction" /\ st.opcode \notin AllMnemonics

ShapeMismatch(st) ==
  /\ st.kind = "Instruction"
  /\ st.opcode = "SWI"
  /\ ~(Len(st.args) = 1 /\ st.args[1].kind \in {"AT_REG", "AT_LITERAL"})

RangeViolation(st) ==
  /\ st.kind = "Instruction"
  /\ st.opcode \in DOMAIN riInstructions \ {"MOV"}
  /\ Len(st.args) = 2
  /\ st.args[1].kind = "AT_REG"
  /\ st.args[2].kind = "AT_LITERAL"
  /\ st.args[2].lit.kind = "Constant"
  /\ st.args[2].lit.value >= 256

UnknownName(st, state) ==
  /\ OperandLabel(st) # ""
  /\ OperandLabel(st) \notin DOMAIN state.labels
  /\ OperandLabel(st) \notin DOMAIN state.symbols

Overlap(st, state) ==
  /\ state.index \in state.used
  /\ \/ st.kind = "DatBlock" /\ Len(st.values) > 0 /\ st.values[1].kind = "Constant"
     \/ st.kind = "Instruction" /\ st.opcode \in DOMAIN voidInstructions /\ st.args = <<>>

\* Replaying st in state must detect an error.
Detects(st, state) ==
  \/ UnknownOpcode(st)
  \/ ShapeMismatch(st)
  \/ RangeViolation(st)
  \/ UnknownName(st, state)
  \/ Overlap(st, state)

\* Number of statements of the current pass whose replay has completed.
ReplayedCount == IF err # "" /\ Len(at) > 0 THEN Len(at) - 1 ELSE Len(at)

SymbolDefsReplayed == { j \in 1..ReplayedCount : lines[j].kind = "SymbolDef" }

LastDefOf(n) == MaxOf({ j \in SymbolDefsReplayed : lines[j].name = n })

\* The expressions a statement evaluates.
ExprsOf(st) ==
  CASE st.kind = "Org" -> {st.loc}
    [] st.kind = "SymbolDef" -> {st.value}
    [] st.kind = "DatBlock" -> { st.values[i] : i \in 1..Len(st.values) }
    [] st.kind = "FillBlock" -> {st.length, st.value}
    [] st.kind = "Instruction" ->
         { st.args[i].lit : i \in { k \in 1..Len(st.args) : st.args[k].kind = "AT_LITERAL" } }
           \cup
         { st.args[i].label : i \in { k \in 1..Len(st.args) : st.args[k].kind = "AT_LABEL" } }
    [] OTHER -> {}

----------------------------------------------------------------------------
(* C1: for every parsed statement list the pass driver terminates: a       *)
(* running main() eventually either leaves the loop and writes the image   *)
(* or stops with a fatal error; it never iterates forever.                 *)
C1_DriverTerminates == <>Terminated

(* C2: the pass loop exits exactly after the first pass in which no        *)
(* LabelDef changed its label's entry; when it has exited, every uniquely  *)
(* defined label is defined, holds the cursor its LabelDef was replayed at *)
(* in the final pass, and held that same entry when the final pass began.  *)
C2_ExitAtFixedPoint ==
  /\ (pc = "loop" /\ passes >= 1) => ((s.dirty \/ ~s.resolved) <=> changed)
  /\ LoopExited =>
       /\ ~changed
       /\ \A l \in DOMAIN s.labels : UniqueDef(l) =>
            /\ s.labels[l].defined
            /\ s.labels[l].value = at[DefPos(l)].cursor
            /\ start[l] = s.labels[l]

C2_Witness ==
  /\ pc = "done"
  /\ passes >= 3
  /\ \E l \in DOMAIN s.labels : UniqueDef(l) /\ s.labels[l].value > 0

(* C3: a program made of a branch "B a", a later ":a" and otherwise only   *)
(* fixed-size statements assembles without error in at most three passes,  *)
(* and the branch in the final buffer denotes the final address of a.      *)
C3_ForwardReferenceConverges ==
  IsForwardRef(lines) =>
    /\ err = ""
    /\ passes <= 3
    /\ LoopExited => BranchDenotes(at[BranchPos].cursor, s.labels["a"].value)

C3_WitnessShort ==
  /\ IsForwardRef(lines)
  /\ pc = "done"
  /\ s.labels["a"].value > at[BranchPos].cursor + 200
  /\ BitAnd(RomAt(s, at[BranchPos].cursor), 511) # 511

C3_WitnessLong ==
  /\ IsForwardRef(lines)
  /\ pc = "done"
  /\ BitAnd(RomAt(s, at[BranchPos].cursor), 511) = 511

(* C4: replaying a statement whose operand is a LabelUse of a label that   *)
(* was collected but has no value yet sets resolved to false and does not  *)
(* end the process, so that the loop condition asks for a further pass.    *)
C4_UndefinedUseClearsResolved ==
  [][ReadsUndefinedLabel => (~s'.resolved /\ pc' = "replay")]_vars

(* C5: a program in which two LabelDefs carry the same name is rejected    *)
(* with a fatal error by the label collection, before any pass runs.       *)
C5_DuplicateLabelIsFatal ==
  HasDuplicateLabel(lines) => (pc \in {"collect", "exit"} /\ passes = 0)

(* C6: since the last reset no address has been written twice: the pushes  *)
(* went to pairwise different addresses, which are exactly the used set,   *)
(* each stored its word there and moved the cursor one past it (without an *)
(* .ORG the n-th push writes address n-1), and a push to a used address    *)
(* ends the process with "overlapping regions" and changes nothing.        *)
C6_NoAddressWrittenTwice ==
  /\ Cardinality(WrittenAddresses) = Len(writes)
  /\ s.used = WrittenAddresses
  /\ \A i \in 1..Len(writes) :
       /\ RomAt(s, writes[i][1]) = writes[i][2]
       /\ writes[i][3] = U16(writes[i][1] + 1)
  /\ (~HasOrg(lines) /\ err = "") =>
       /\ s.index = U16(Len(writes))
       /\ \A i \in 1..Len(writes) : writes[i][1] = i - 1
  /\ err = "overlapping regions" => (pc = "exit" /\ s.index \in s.used /\ ~out.written)

C6_Witness ==
  /\ pc = "exit"
  /\ err = "overlapping regions"
  /\ HasOrg(lines)
  /\ Len(writes) >= 1

(* C7: when the image is written, the index used as its end is one past    *)
(* the highest address written in the final pass.                          *)
C7_IndexIsOnePastHighest ==
  (pc = "done" /\ s.used # {}) => out.end = MaxOf(s.used) + 1

(* C8: every detected error is fatal and produces no output: a parse error *)
(* and the replay of a statement with an unknown opcode, a wrong argument  *)
(* shape, an out-of-range literal, an unknown name or an overlapping write *)
(* end the process with an error; once an error is raised the process has  *)
(* exited without the image, and an exited process takes no further step.  *)
C8_ErrorsAreFatal ==
  [][/\ (pc = "parse" /\ ~src.ok) => (pc' = "exit" /\ err' # "")
     /\ (pc = "replay" /\ li <= Len(lines) /\ Detects(lines[li], s))
          => (pc' = "exit" /\ err' # "")
     /\ err' # "" => (pc' = "exit" /\ ~out'.written)
     /\ pc # "exit"]_vars

C8_Witness ==
  /\ pc = "exit"
  /\ err = "Unrecognized opcode"
  /\ passes = 1
  /\ 1 < li
  /\ li < Len(lines)
  /\ ~out.written

(* C9: at every point of a pass the symbol table holds exactly the names   *)
(* of the SymbolDefs already replayed in that pass, each bound to the      *)
(* value its most recent replay computed; a pass starts with no symbols    *)
(* and with the label table the previous pass left.                        *)
C9_SymbolsArePerPass ==
  /\ DOMAIN s.symbols = { lines[j].name : j \in SymbolDefsReplayed }
  /\ \A n \in DOMAIN s.symbols :
       s.symbols[n] = [value |-> at[LastDefOf(n)].value, defined |-> TRUE]
  /\ (pc = "replay" /\ at = <<>>) => (s.symbols = <<>> /\ s.labels = start)

C9_Witness ==
  /\ pc = "replay"
  /\ passes >= 2
  /\ Cardinality(SymbolDefsReplayed) = 2
  /\ "s" \in DOMAIN s.symbols
  /\ s.symbols["s"].value = 7
  /\ "a" \in DOMAIN s.labels
  /\ s.labels["a"].defined

(* C10: every expression of the program evaluates, in every state the      *)
(* assembler reaches, to a value in 0..65535 (unless it names an unknown   *)
(* label), whatever the operand values, a zero divisor included; unary     *)
(* minus of v is (0x10000 - v) mod 2^16 and ~v is 0xFFFF xor v.            *)
C10_ExpressionsEvaluate ==
  /\ \A j \in 1..Len(lines) : \A e \in ExprsOf(lines[j]) :
       /\ Evaluate(e, s).err \in {"", "Unknown label"}
       /\ Evaluate(e, s).v \in 0..65535
  /\ \A l \in DOMAIN s.labels :
       /\ Evaluate(UnaryExpr("MINUS", LabelUse(l)), s) = Val((W - s.labels[l].value) % W)
       /\ Evaluate(UnaryExpr("NOT", LabelUse(l)), s) = Val(65535 - s.labels[l].value)
  /\ err # "integer divide by zero"

----------------------------------------------------------------------------
(* The parser and the encoders applied on their own. *)

\* Parse has returned for the single line ".DAT toks".
ParsedExpr(toks) ==
  /\ call.fn = "Parse"
  /\ ret.done
  /\ call.tokens = DirectiveLine("DAT", <<toks>>)

\* The single line ".DAT toks" went through its first pass.
ReplayedExpr(toks) ==
  /\ call.fn = "Replay"
  /\ call.tokens = DirectiveLine("DAT", <<toks>>)

ParsesTo(toks, e) == ParsedExpr(toks) => (ret.ok /\ ret.v = <<DatBlock(<<e>>)>>)

EvaluatesTo(toks, v) ==
  ReplayedExpr(toks) => (ret.m.err = "" /\ ret.m.writes = << <<0, v, 1>> >>)

LeftNest(op1, op2) == BinExpr(BinExpr(Constant(7), op1, Constant(2)), op2, Constant(3))
RightNest(op1, op2) == BinExpr(Constant(7), op1, BinExpr(Constant(2), op2, Constant(3)))

\* The tree of "7 op1 2 op2 3" when * / & bind tighter than + - | ^ and chains
\* of one level associate to the left.
ExpectedChain(op1, op2) ==
  IF op1 \in AddOps /\ op2 \in MulOps THEN RightNest(op1, op2) ELSE LeftNest(op1, op2)

(* C11: the parser gives * / & a higher precedence than + - | ^, reduces   *)
(* chains of one precedence to the left, applies stacked unary operators   *)
(* innermost-first to the term and lets parentheses override precedence:   *)
(* "7 op1 2 op2 3" parses to the tree the precedence table gives, with     *)
(* parentheses to the tree they spell, "u1 u2 5" to u1(u2(5)); and         *)
(* "1 + 2 * 3" is 7, "(1 + 2) * 3" is 9, "~0" and "-1" are 0xFFFF.         *)
C11_ExpressionPrecedence ==
  /\ \A op1 \in BinOps : \A op2 \in BinOps :
       /\ ParsesTo(ChainToks(op1, op2), ExpectedChain(op1, op2))
       /\ ParsesTo(LeftParenToks(op1, op2), LeftNest(op1, op2))
       /\ ParsesTo(RightParenToks(op1, op2), RightNest(op1, op2))
       /\ EvaluatesTo(ChainToks(op1, op2), Evaluate(ExpectedChain(op1, op2), NewState).v)
  /\ \A u1 \in UnOps : \A u2 \in UnOps :
       /\ ParsesTo(UnaryToks(u1, u2), UnaryExpr(u1, UnaryExpr(u2, Constant(5))))
       /\ EvaluatesTo(UnaryToks(u1, u2), UnOp(u1, UnOp(u2, 5).v).v)
  /\ EvaluatesTo(Example123, 7)
  /\ EvaluatesTo(ExampleParen123, 9)
  /\ EvaluatesTo(ExampleNot0, 65535)
  /\ EvaluatesTo(ExampleMinus1, 65535)

\* "7 - 2 * 3" was parsed and emitted the word 1.
C11_Witness ==
  /\ ReplayedExpr(ChainToks("MINUS", "TIMES"))
  /\ call.lines = <<DatBlock(<<RightNest("MINUS", "TIMES")>>)>>
  /\ ret.m.writes = << <<0, 1, 1>> >>

(* C12: the shift operators are supported: "4 << 1" and "4 >> 1" are       *)
(* accepted by the parser as a binary operation of 4 and 1 and evaluate to *)
(* 8 and 2.                                                                *)
C12_ShiftsAreSupported ==
  /\ \A op \in ShiftOps : ParsesTo(ShiftToks(op), BinExpr(Constant(4), op, Constant(1)))
  /\ EvaluatesTo(ShiftToks("LANGLES"), 8)
  /\ EvaluatesTo(ShiftToks("RANGLES"), 2)

\* v is the 16-bit word of a value that fits a field of width w.
Fits(v, signed, w) ==
  IF signed THEN v < Pow2(w - 1) \/ v >= W - Pow2(w - 1) ELSE v < Pow2(w)

ParsedOneOf(ls) == call.fn = "Parse" /\ ret.done /\ call.tokens \in ls

\* A program among ls went through its first pass.
ReplayedOneOf(ls) == call.fn = "Replay" /\ call.tokens \in ls

(* C14: every instruction whose literal is an 8-bit unsigned field (OP Rd,  *)
(* #imm other than MOV; ADD Rd, PC|SP, #imm; ADD/SUB SP, #imm; SWI #imm)   *)
(* assembles with the literal 255 and emits its one word at the cursor;    *)
(* with the literal 256 it raises the fatal range error that cites the     *)
(* width 8, emits no word and leaves the cursor where it was.              *)
C14_ByteLiteralRange ==
  /\ ParsedOneOf(ByteLines(255) \cup ByteLines(256)) => ret.ok
  /\ ReplayedOneOf(ByteLines(255)) =>
       /\ ret.m.err = ""
       /\ Len(ret.m.writes) = 1
       /\ ret.m.writes[1][1] = LiteralCursor
       /\ ret.m.writes[1][2] % 256 = 255
       /\ ret.m.s.index = LiteralCursor + 1
  /\ ReplayedOneOf(ByteLines(256)) =>
       /\ ret.m.err = TooBig(8)
       /\ ret.m.writes = <<>>
       /\ ret.m.s.index = LiteralCursor
       /\ ret.m.s.rom = <<>>

\* "SUB SP, #256" was parsed and its replay ended in the range error.
C14_Witness ==
  /\ call.fn = "Replay"
  /\ call.tokens = StackAdjustLine("SUB", 256)
  /\ call.lines[2] = Instruction("SUB", <<ArgSP, ArgLiteral(Constant(256))>>)
  /\ ret.m.err = TooBig(8)
  /\ ret.m.writes = <<>>

\* "CMP r3, #255" was parsed and emitted its word.
C14_WitnessFits ==
  /\ call.fn = "Replay"
  /\ call.tokens = RILine("CMP", 3, 255)
  /\ ret.m.err = ""
  /\ ret.m.writes = << <<LiteralCursor, 7167, LiteralCursor + 1>> >>

\* The line "op rd, #n" went through its first pass.
ReplayedRI(op, rd, n) == call.fn = "Replay" /\ call.tokens = RILine(op, rd, n)

\* The first pass emitted exactly the word x, at the cursor of the literal lines.
EmitsWord(x) ==
  /\ ret.m.err = ""
  /\ ret.m.writes = << <<LiteralCursor, x, LiteralCursor + 1>> >>

\* "OP Rd, #imm" with imm <= 255 is one word made of the op number, Rd and imm,
\* each in its own field: imm in bits 0-7, Rd in bits 8-10, the op from bit 11.
RIFieldsAreDisjoint ==
  \A op \in DOMAIN riInstructions : \A rd \in LiteralRegs :
  \A n \in { x \in ByteSamples \cup MovSamples : x <= 255 } :
    ReplayedRI(op, rd, n) => EmitsWord(riInstructions[op] * 2048 + rd * 256 + n)

(* C15 as amended: register-immediate instructions are packed bit-exactly  *)
(* as op number (from bit 11) | register (bits 8-10) | 8-bit literal:      *)
(* "MOV r0, #5" assembles to the single word 0x0805 and "ADD r0, #1" to    *)
(* the single word 0x2001, and in general the word of "OP Rd, #imm" with   *)
(* imm <= 255 is determined by the op number, Rd and imm, each in its own  *)
(* field.                                                                  *)
C15_RIPacking ==
  /\ ReplayedRI("MOV", 0, 5) => EmitsWord(2053)
  /\ ReplayedRI("ADD", 0, 1) => EmitsWord(8193)
  /\ RIFieldsAreDisjoint

\* "ADD r0, #1" was parsed as a register and a literal and emitted 0x2001.
C15_Witness ==
  /\ ReplayedRI("ADD", 0, 1)
  /\ call.lines[2] = Instruction("ADD", <<ArgReg(0), ArgLiteral(Constant(1))>>)
  /\ EmitsWord(8193)

(* C15 as stated: "MOV r0, #5" assembles to the single word 0x2005 and     *)
(* "ADD r0, #1" to the single word 0x3001, each of op number, Rd and imm   *)
(* in its own field.                                                       *)
C15_RIPackingAsStated ==
  /\ ReplayedRI("MOV", 0, 5) => EmitsWord(8197)
  /\ ReplayedRI("ADD", 0, 1) => EmitsWord(12289)
  /\ RIFieldsAreDisjoint

\* What an immediate-format word (MOV, NEG, MVH) does to the registers rf.
ExecImmediate(word, rf) ==
  LET op == word \div 2048
      d == (word \div 256) % 8
      imm == word % 256
  IN CASE op = 1 -> [rf EXCEPT ![d] = imm]
       [] op = 2 -> [rf EXCEPT ![d] = U16(W - imm)]
       [] op = 15 -> [rf EXCEPT ![d] = BitOr(BitAnd(rf[d], 255), Shl(imm, 8))]
       [] OTHER -> rf

\* The registers after the words written by ws, in order.
RECURSIVE ExecAll(_, _)
ExecAll(ws, rf) ==
  IF ws = <<>> THEN rf ELSE ExecAll(Tail(ws), ExecImmediate(Head(ws)[2], rf))

\* Registers holding values that no sample loads.
JunkRegs == [r \in 0..7 |-> 43981]

\* v can be loaded by one MOV or one NEG.
SingleLoadable(v) == v <= 255 \/ \E imm \in 1..255 : v = U16(W - imm)

(* C16: MOV Rd, #v is accepted for every 16-bit v and emits the minimal    *)
(* sequence that loads exactly v: run by the ISA's meaning of MOV, NEG and *)
(* MVH the emitted words leave Rd = v and the other registers alone; one   *)
(* word is emitted when v <= 255 or v = -imm with imm in 1..255, and two   *)
(* words (MOV of the low byte, then MVH of the high byte) otherwise.       *)
C16_MovLoadsAnyValue ==
  \A rd \in LiteralRegs : \A v \in MovSamples :
    /\ (call.fn = "Parse" /\ ret.done /\ call.tokens = RILine("MOV", rd, v)) => ret.ok
    /\ ReplayedRI("MOV", rd, v) =>
         /\ ret.m.err = ""
         /\ ExecAll(ret.m.writes, JunkRegs) = [JunkRegs EXCEPT ![rd] = v]
         /\ Len(ret.m.writes) = IF SingleLoadable(v) THEN 1 ELSE 2
         /\ ~SingleLoadable(v) =>
              /\ ret.m.writes[1] = <<LiteralCursor, 2048 + rd * 256 + (v % 256), LiteralCursor + 1>>
              /\ ret.m.writes[2] =
                   <<LiteralCursor + 1, 30720 + rd * 256 + (v \div 256), LiteralCursor + 2>>

\* "MOV r3, #4660" (0x1234) emitted MOV r3, #0x34 and MVH r3, #0x12.
C16_Witness ==
  /\ ReplayedRI("MOV", 3, 4660)
  /\ Len(ret.m.writes) = 2
  /\ ExecAll(ret.m.writes, JunkRegs)[3] = 4660

\* "MOV r7, #65535" emitted the single word NEG r7, #1.
C16_WitnessNeg ==
  /\ ReplayedRI("MOV", 7, 65535)
  /\ ret.m.writes = << <<LiteralCursor, 4096 + 7 * 256 + 1, LiteralCursor + 1>> >>

\* The branch "op t" at the cursor c, with t = c + 1 + d, went through its first pass.
ReplayedBranch(op, c, d) == call.fn = "Replay" /\ call.tokens = BranchLine(op, c, d)

\* The 16-bit word d read as a signed value.
Signed16(d) == IF d >= 32768 THEN d - W ELSE d

\* d is in the range of the short form and is not the reserved value -1.
ShortRange(d) == Signed16(d) \in -256..255 /\ Signed16(d) # -1

\* The branch word of the op with the 9-bit offset field off.
BranchWord(op, off) == 40960 + branchInstructions[op] * 512 + off

C17_WitnessLong ==
  /\ ReplayedBranch("BNE", 300, 256)
  /\ Len(ret.m.writes) = 2
  /\ ret.m.writes[2][2] = 557

C18_WitnessNext ==
  /\ ReplayedBranch("BLE", 65535, 0)
  /\ ret.m.writes = << <<65535, 48640, 0>> >>

\* The words an item of a .DAT line stands for: the value, or the character codes.
ItemWords(g) ==
  IF g[1].tok = "STRING" THEN g[1].lit ELSE << CHOOSE n \in DatValues : g = <<Num(n)>> >>

RECURSIVE DatWords(_)
DatWords(gs) == IF gs = <<>> THEN <<>> ELSE ItemWords(Head(gs)) \o DatWords(Tail(gs))

\* The writes of the words xs at consecutive addresses from the cursor c.
Consecutive(c, xs) == [i \in 1..Len(xs) |-> <<U16(c + i - 1), xs[i], U16(c + i)>>]

ReplayedDat(gs) == call.fn = "Replay" /\ call.tokens = DatLine(gs)

(* C19: .DAT emits one word per value, in source order, at consecutive     *)
(* addresses from the cursor; a string literal of n characters contributes *)
(* the n character codes in order; '.DAT "AB"' emits exactly 0x0041 and    *)
(* 0x0042 and advances the cursor by 2.                                    *)
C19_DatEmitsValuesInOrder ==
  /\ \A gs \in UNION { [1..k -> DatItems] : k \in 1..MaxDatItems } :
       /\ (call.fn = "Parse" /\ ret.done /\ call.tokens = DatLine(gs)) => ret.ok
       /\ ReplayedDat(gs) =>
            /\ ret.m.err = ""
            /\ ret.m.writes = Consecutive(DataCursor, DatWords(gs))
            /\ ret.m.s.index = DataCursor + Len(DatWords(gs))
  /\ ReplayedDat(<< <<Str(<<65, 66>>)>> >>) =>
       ret.m.writes = << <<DataCursor, 65, DataCursor + 1>>, <<DataCursor + 1, 66, DataCursor + 2>> >>

ReplayedFill(v, n) == call.fn = "Replay" /\ call.tokens = FillLine(v, n)
ReplayedReserve(n) == call.fn = "Replay" /\ call.tokens = ReserveLine(n)

\* The first pass emitted n copies of v from the cursor of the data lines.
EmitsCopies(v, n) ==
  /\ ret.m.err = ""
  /\ ret.m.writes = Consecutive(DataCursor, [i \in 1..n |-> v])
  /\ ret.m.s.index = DataCursor + n

(* C20: ".FILL value, length" emits exactly length copies of value and     *)
(* advances the cursor by length; ".RESERVE length" is equivalent to       *)
(* ".FILL 0, length": it emits exactly length words, all zero.             *)
C20_FillAndReserve ==
  \A n \in 0..MaxFillLen :
    /\ \A v \in FillValues : ReplayedFill(v, n) => EmitsCopies(v, n)
    /\ ReplayedReserve(n) => EmitsCopies(0, n)
    /\ (call.fn = "Parse" /\ ret.done /\ call.tokens = ReserveLine(n)) =>
         (ret.ok /\ ret.v = Parse(FillLine(0, n)).v)

\* The half of C20 about .FILL alone.
FillEmitsCopies ==
  \A n \in 0..MaxFillLen : \A v \in FillValues : ReplayedFill(v, n) => EmitsCopies(v, n)

----------------------------------------------------------------------------
(* Register lists and memory operands: the parser followed by the encoder. *)

ReplayedPushPop(op, gs) == call.fn = "Replay" /\ call.tokens = PushPopLine(op, gs)

ReplayedMulti(op, rb, gs) == call.fn = "Replay" /\ call.tokens = MultiLine(op, rb, FALSE, gs)

\* The registers r0..r7 that occur in the list gs.
RegsOf(gs) == { r \in 0..7 : \E i \in DOMAIN gs : gs[i] = <<Reg(r)>> }

\* Whether LR or PC occurs in the list gs.
HasExtra(gs) == \E i \in DOMAIN gs : gs[i] \in { <<Sym("LR")>>, <<Sym("PC")>> }

Bit(R, i) == IF i \in R THEN Pow2(i) ELSE 0

\* The bitmap with bit i set iff i is in R.
Bitmap(R) ==
  Bit(R, 0) + Bit(R, 1) + Bit(R, 2) + Bit(R, 3) + Bit(R, 4) + Bit(R, 5) + Bit(R, 6) + Bit(R, 7)

PushPopWord(op, gs) ==
  57344 + (IF op = "PUSH" THEN 2048 ELSE 0) + (IF HasExtra(gs) THEN 256 ELSE 0)
    + Bitmap(RegsOf(gs))

MultiWord(op, rb, gs) ==
  57344 + (IF op = "STMIA" THEN 6144 ELSE 4096) + rb * 256 + Bitmap(RegsOf(gs))

\* The one word w was emitted at the cursor, without error.
EmitsOnly(w) ==
  /\ ret.m.err = ""
  /\ ret.m.writes = << <<LiteralCursor, w, LiteralCursor + 1>> >>

\* The items that occur in the list gs.
ItemsOf(gs) == { gs[i] : i \in DOMAIN gs }

\* What the first pass writes for the token stream ts; nothing if it is rejected.
WritesOf(ts) ==
  With(Parse(ts), LAMBDA r : IF r.ok THEN FirstPass(r.v).writes ELSE <<>>)

\* C21: the register bitmap of PUSH/POP/LDMIA/STMIA has bit i set iff ri occurs
\* in the list, so every list naming the same registers (in any order, with any
\* repetition) is encoded as the same word.
C21_RegisterListsAreSets ==
  /\ \A op \in {"PUSH", "POP"} : \A gs \in RlistSeqs :
       ReplayedPushPop(op, gs) =>
         /\ EmitsOnly(PushPopWord(op, gs))
         /\ \A hs \in RlistSeqs :
              ItemsOf(hs) = ItemsOf(gs) => WritesOf(PushPopLine(op, hs)) = ret.m.writes
  /\ \A op \in {"LDMIA", "STMIA"} : \A rb \in MultiBases : \A gs \in RlistSeqs :
       ReplayedMulti(op, rb, gs) =>
         /\ EmitsOnly(MultiWord(op, rb, gs))
         /\ \A hs \in RlistSeqs :
              ItemsOf(hs) = ItemsOf(gs)
                => WritesOf(MultiLine(op, rb, FALSE, hs)) = ret.m.writes

\* PUSH {r3, r0} was assembled, to the word of PUSH {r0, r3}: 0xe809.
C21_Witness ==
  /\ ReplayedPushPop("PUSH", << <<Reg(3)>>, <<Reg(0)>> >>)
  /\ EmitsOnly(59401)
  /\ WritesOf(PushPopLine("PUSH", << <<Reg(0)>>, <<Reg(3)>> >>)) = ret.m.writes

\* LDMIA r5, {r7, r7, r0} was assembled, to the word 0xf581.
C21_WitnessRepeated ==
  /\ ReplayedMulti("LDMIA", 5, << <<Reg(7)>>, <<Reg(7)>>, <<Reg(0)>> >>)
  /\ EmitsOnly(62849)

ParsedPushPop(op, gs) == call.fn = "Parse" /\ ret.done /\ call.tokens = PushPopLine(op, gs)

ParsedMulti(op, rb, marker, gs) ==
  call.fn = "Parse" /\ ret.done /\ call.tokens = MultiLine(op, rb, marker, gs)

\* LR occurs only in a PUSH list and PC only in a POP list.
LegalExtras(op, gs) ==
  \A i \in DOMAIN gs :
    /\ gs[i] = <<Sym("LR")>> => op = "PUSH"
    /\ gs[i] = <<Sym("PC")>> => op = "POP"

\* The LR/PC bit (bit 8) of the word emitted.
ExtraBit == (ret.m.writes[1][2] \div 256) % 2

\* C22: LR is accepted only in a PUSH list and PC only in a POP list, each
\* setting the LR/PC bit of the word; LR in a POP list, PC in a PUSH list and
\* either of them in an LDMIA/STMIA list is a parse error and gives no statement.
C22_ExtrasInRegisterLists ==
  /\ \A op \in {"PUSH", "POP"} : \A gs \in RlistSeqs :
       /\ ParsedPushPop(op, gs) => (ret.ok <=> LegalExtras(op, gs))
       /\ ReplayedPushPop(op, gs) =>
            /\ LegalExtras(op, gs)
            /\ Len(call.lines) = 2
            /\ call.lines[2].kind = "StackOp"
            /\ call.lines[2].lrpc = HasExtra(gs)
            /\ ret.m.err = ""
            /\ ExtraBit = IF HasExtra(gs) THEN 1 ELSE 0
  /\ \A op \in {"LDMIA", "STMIA"} : \A rb \in MultiBases : \A gs \in RlistSeqs :
       /\ ParsedMulti(op, rb, FALSE, gs) => (ret.ok <=> ~HasExtra(gs))
       /\ ReplayedMulti(op, rb, gs) => ~HasExtra(gs)

\* PUSH {r0, LR} was assembled with the LR bit: 0xe901.
C22_Witness ==
  /\ ReplayedPushPop("PUSH", << <<Reg(0)>>, <<Sym("LR")>> >>)
  /\ EmitsOnly(59649)

\* POP {LR} and LDMIA r2, {r0, PC} were rejected.
C22_WitnessRejected ==
  \/ ParsedPushPop("POP", << <<Sym("LR")>> >>) /\ ~ret.ok
  \/ ParsedMulti("LDMIA", 2, FALSE, << <<Reg(0)>>, <<Sym("PC")>> >>) /\ ~ret.ok

\* The line parsed to ".ORG" followed by the multi-load/store of gs with base rb.
IsMultiOf(op, rb, gs) ==
  /\ ret.ok
  /\ Len(ret.v) = 2
  /\ ret.v[2] = StackOp(Bitmap(RegsOf(gs)), op = "STMIA", FALSE, rb)

\* C23: LDMIA/STMIA take the base register without a writeback marker:
\* 'LDMIA Rb, {list}' and 'STMIA Rb, {list}' parse to a multi-load/store statement
\* with base Rb, and the same line with '!' after the base register is a parse
\* error.
C23_NoWritebackMarker ==
  \A op \in {"LDMIA", "STMIA"} : \A rb \in MultiBases : \A gs \in RlistSeqs :
    /\ (ParsedMulti(op, rb, FALSE, gs) /\ ~HasExtra(gs)) => IsMultiOf(op, rb, gs)
    /\ ParsedMulti(op, rb, TRUE, gs) => ~ret.ok

\* STMIA r5, {r0, r3} was parsed to a multi-store with base r5, and
\* LDMIA r2!, {r0} was rejected.
C23_Witness ==
  /\ ParsedMulti("STMIA", 5, FALSE, << <<Reg(0)>>, <<Reg(3)>> >>)
  /\ ret.v[2] = StackOp(9, TRUE, FALSE, 5)

C23_WitnessMarker ==
  /\ ParsedMulti("LDMIA", 2, TRUE, << <<Reg(0)>> >>)
  /\ ~ret.ok

\* C23 as stated: the line with '!' after the base register parses to a
\* multi-load/store statement with base Rb, and the line without it is a parse
\* error.
C23_WritebackMarkerRequired ==
  \A op \in {"LDMIA", "STMIA"} : \A rb \in MultiBases : \A gs \in RlistSeqs :
    /\ (ParsedMulti(op, rb, TRUE, gs) /\ ~HasExtra(gs)) => IsMultiOf(op, rb, gs)
    /\ ParsedMulti(op, rb, FALSE, gs) => ~ret.ok

ParsedMem(op, rd, b, pre, post) ==
  call.fn = "Parse" /\ ret.done /\ call.tokens = MemLine(op, rd, b, pre, post)

ReplayedMem(op, rd, b, pre, post) ==
  call.fn = "Replay" /\ call.tokens = MemLine(op, rd, b, pre, post)

\* The LDR/STR statement o has an operand inside the brackets after the base.
HasPre(o) == o.preLit # Nil \/ o.preReg # 65535

\* The LDR/STR statement o has an operand after the closing bracket.
HasPost(o) == o.postLit # Nil

\* C24: no LDR/STR statement produced by the parser has both a pre-index operand
\* and a post-index operand; a line that writes both is rejected.
C24_PreAndPostAreExclusive ==
  /\ (call.fn = "Parse" /\ ret.done /\ ret.ok) =>
       \A i \in DOMAIN ret.v :
         ret.v[i].kind = "LoadStore" => ~(HasPre(ret.v[i]) /\ HasPost(ret.v[i]))
  /\ \A op \in {"LDR", "STR"} : \A rd \in MemDests : \A b \in MemBases :
       \A pre \in MemPres \ {<<>>} : \A post \in MemPosts \ {<<>>} :
         ParsedMem(op, rd, b, pre, post) => ~ret.ok

\* The memory-format word with opcode $0 (load) or $1 (store) and literal field 0.
PostIncZeroWord(op, rd, rb) ==
  49152 + (IF op = "STR" THEN 1024 ELSE 0) + rd * 128 + rb * 16

\* C25: 'LDR Rd, [Rb]' and 'STR Rd, [Rb]' are accepted and encoded as the
\* post-increment form with increment 0: opcode $0 / $1 with a zero literal field.
C25_BaseOnlyIsPostIncZero ==
  \A op \in {"LDR", "STR"} : \A rd \in MemDests : \A rb \in MemBaseRegs :
    /\ ParsedMem(op, rd, <<Reg(rb)>>, <<>>, <<>>) => ret.ok
    /\ ReplayedMem(op, rd, <<Reg(rb)>>, <<>>, <<>>) =>
         /\ EmitsOnly(PostIncZeroWord(op, rd, rb))
         /\ WritesOf(MemLine(op, rd, <<Reg(rb)>>, <<>>, <<Imm(0)>>)) = ret.m.writes
    /\ ReplayedMem(op, rd, <<Reg(rb)>>, <<>>, <<Imm(0)>>) =>
         EmitsOnly(PostIncZeroWord(op, rd, rb))

\* STR r3, [r6] was assembled, to the word 0xc5e0.
C25_Witness ==
  /\ ReplayedMem("STR", 3, <<Reg(6)>>, <<>>, <<>>)
  /\ EmitsOnly(50656)

\* LDR r0, [r1], #0 was assembled, to the word 0xc010.
C25_WitnessZero ==
  /\ ReplayedMem("LDR", 0, <<Reg(1)>>, <<>>, <<Imm(0)>>)
  /\ EmitsOnly(49168)

\* The statements the token stream ts parses to; none if it is rejected.
StatementsOf(ts) == With(Parse(ts), LAMBDA r : IF r.ok THEN r.v ELSE <<>>)

\* C26: 'op Rd, [PC, #n]' and 'op Rd, [SP, #n]' parse to statements that differ
\* (they record which special register is the base) and assemble to different
\* words, unless the PC form is rejected.
C26_SpecialBaseIsPreserved ==
  \A op \in {"LDR", "STR"} : \A rd \in MemDests : \A n \in MemOffsets :
    /\ (ParsedMem(op, rd, <<Sym("PC")>>, <<Imm(n)>>, <<>>) /\ ret.ok) =>
         ret.v # StatementsOf(MemLine(op, rd, <<Sym("SP")>>, <<Imm(n)>>, <<>>))
    /\ ReplayedMem(op, rd, <<Sym("PC")>>, <<Imm(n)>>, <<>>) =>
         \/ ret.m.err # ""
         \/ ret.m.writes # WritesOf(MemLine(op, rd, <<Sym("SP")>>, <<Imm(n)>>, <<>>))

----------------------------------------------------------------------------
(* The pass driver: what a pass keeps of the passes before it. *)

\* The step of main() that calls s.reset() at the start of a pass.
ResetStep == pc = "loop" /\ pc' = "replay"

\* C27: reset() empties the symbol table and the used set, sets index to 0,
\* dirty to false and resolved to true, and leaves the label table and the
\* buffer unchanged; the set of label names never changes after the labels are
\* collected, and no label's defined flag goes from true back to false.
C27_ResetKeepsLabelsAndBuffer ==
  [][ /\ ResetStep =>
           /\ s'.symbols = <<>>
           /\ s'.used = {}
           /\ s'.index = 0
           /\ ~s'.dirty
           /\ s'.resolved
           /\ s'.labels = s.labels
           /\ s'.rom = s.rom
      /\ pc \notin {"parse", "collect"} => DOMAIN s'.labels = DOMAIN s.labels
      /\ \A l \in DOMAIN s.labels :
           s.labels[l].defined => (l \in DOMAIN s'.labels /\ s'.labels[l].defined)
    ]_vars

\* A second or later pass has just been started by reset(), over a program with
\* a symbol definition, with a label defined and words in the buffer.
C27_Witness ==
  /\ pc = "replay"
  /\ li = 1
  /\ passes >= 2
  /\ \E i \in DOMAIN lines : lines[i].kind = "SymbolDef"
  /\ \E l \in DOMAIN s.labels : s.labels[l].defined
  /\ DOMAIN s.rom # {}
  /\ s.symbols = <<>>
  /\ s.used = {}

\* The names of the labels the program ls defines.
LabelNames(ls) == { ls[i].label : i \in { j \in DOMAIN ls : ls[j].kind = "LabelDef" } }

\* The addresses tried as final values of the labels.
LabelAddrs == 0..MaxLines

\* The state at the start of a pass in which every label is bound to its value in L.
BoundTo(ls, L) ==
  [reset(collectLabels(ls, reset(NewState))) EXCEPT
     !.labels = [l \in DOMAIN L |-> [value |-> L[l], defined |-> TRUE]]]

\* One replay of the program with every label bound to its value in L.
ReplayBound(ls, L) == replayAll(ls, [s |-> BoundTo(ls, L), err |-> "", writes |-> <<>>])

\* L holds the final addresses of the labels: one replay with the labels bound
\* to L raises no error and leaves every label at its value in L.
Converged(ls, L) ==
  With(ReplayBound(ls, L), LAMBDA m : m.err = "" /\ m.s.labels = BoundTo(ls, L).labels)

\* C28: if one replay of the program with every label bound to its final address
\* raises no error, the driver raises no error in any pass.
C28_ProvisionalValuesAreHarmless ==
  (src.ok /\ pc = "exit" /\ err # "") =>
    \A L \in [LabelNames(lines) -> LabelAddrs] : ~Converged(lines, L)

----------------------------------------------------------------------------
(* The scanner applied on its own. *)

\* The tokens of ts that are not whitespace.
NonBlank(ts) == SelectSeq(ts, LAMBDA t : t.tok # "WS")

Newlines(ts) == SelectSeq(ts, LAMBDA t : t.tok = "NEWLINE")

\* C29: a ';' comment is consumed as whitespace up to, and not including, the
\* end of its line: the scanner returns one NEWLINE for every line whether or not
\* the line ends with a comment, and no character of the following line is
\* swallowed into the comment, so that apart from whitespace the tokens are
\* those of the text without its comments.
C29_CommentsEndAtTheirLine ==
  (call.fn = "Scan" /\ ret.done) =>
    /\ Len(Newlines(ret.tokens)) = Len(call.src)
    /\ NonBlank(ret.tokens) = NonBlank(Scan(Uncommented(call.src)))

----------------------------------------------------------------------------
(* The image left in the buffer by the last pass. *)

\* The word pushed at the address a in the current pass.
WrittenAt(a) == writes[CHOOSE i \in DOMAIN writes : writes[i][1] = a][2]

\* C30: when the pass loop has exited, every address of the buffer holds the
\* word written to it during the final pass, and every address not written in
\* the final pass holds 0.
C30_NoResidueOfEarlierPasses ==
  pc \in {"output", "done"} =>
    \A a \in DOMAIN s.rom :
      s.rom[a] = IF a \in WrittenAddresses THEN WrittenAt(a) ELSE 0

====
